---- MODULE Spec2Model ----
(***************************************************************************)
(* Complexity_Analyzer: the sandbox executor (SandboxExecutor) and the     *)
(* analysis run (CodeAnalyzer.analyzeComplexity) as state machines.        *)
(*                                                                         *)
(* Time is counted in minutes (CACHE_TTL = 5 * 60 * 1000 ms = 5 minutes).  *)
(* Timers are urgent: the clock does not pass a timer's due time before    *)
(* the timer has fired.  The two 10 s timers of one execution are armed    *)
(* with the same delay and are modelled without a due time: they may fire  *)
(* in either order and at any moment after the spawn.                      *)
(***************************************************************************)
EXTENDS Integers, Sequences, FiniteSets, TLC

\* ---------------------------------------------------------------- bounds
MaxCalls == 3
MaxExecCalls == 2
MaxTime == 6
MaxRuns == 1
MaxAnalyses == 1
MaxQueries == 2
MaxFailures == 5

\* ------------------------------------------------------- program constants
CACHE_TTL == 5
MAX_PARALLEL_EXECUTIONS == 4
INPUT_SIZES == <<100, 500, 1000, 2000, 5000>>
SupportedLanguages == {"python", "javascript", "java", "cpp"}

\* exit code reported by 'close' when the child was ended by a signal (JS null)
NullCode == -1
\* exit code reported by 'close' after a failed spawn (negative errno)
SpawnErrno == -2

\* ------------------------------------------------------------ input sets
\* slots 1..MaxCalls are direct calls of executeCode; every run has one slot
\* for each size of the ladder
DirectCallIds == 1..MaxCalls
ExecCallIds == 1..MaxExecCalls
RunIds == 1..MaxRuns
AnalysisIds == 1..MaxAnalyses
QueryIds == 1..MaxQueries
RunSlot(r, i) == MaxCalls + (r - 1) * Len(INPUT_SIZES) + i
RunCallIds == (MaxCalls + 1)..(MaxCalls + MaxRuns * Len(INPUT_SIZES))
CallIds == DirectCallIds \cup RunCallIds
ExecFaults == {"language", "mkdtemp", "write", "spawn", "enoent", "rm", "sigterm", "pipes", "stderr"}
RunFaults == {"store", "executor", "classify", "sigterm"}
PlainCode == <<"d", "e", "f", " ", "f">>
BubbleCode == <<"d", "e", "f", " ", "b", "u", "b", "b", "l", "e", "_", "s", "o", "r", "t">>
BfsCode == <<"d", "e", "f", " ", "B", "F", "S">>
ExecCodes == {PlainCode}
ExecSizes == {100}
RunCodes == {PlainCode, BubbleCode}
RunLanguages == {"python"}
MaxInputSizes == {50, 500}
DefaultMaxInputSize == 10000
PatchStatuses == {"pending", "running", "completed", "error"}
ExitCodes == {0, 1}

\* faults: what the environment of this behaviour can do wrong (an unsupported
\* language requested, a file-system or spawn failure, a child that survives
\* SIGTERM, descendants that hold the stdio pipes, output on stderr, a store
\* call that throws, an injected throw of the executor or of the classifier);
\* queries: the queries of the client
VARIABLES now, executionCache, calls, faults, analyses, runs, queries

vars == <<now, executionCache, calls, faults, analyses, runs, queries>>

May(f) == IF f \in faults THEN BOOLEAN ELSE {FALSE}

ExecLanguages == {"python"} \cup (IF "language" \in faults THEN {"cobol"} ELSE {})

StderrTexts == {""} \cup (IF "stderr" \in faults THEN {"Traceback"} ELSE {})

\* ------------------------------------------------------------- data shapes
NoResult == [inputSize |-> 0, runtime |-> 0, memoryUsage |-> 0, status |-> "none", error |-> ""]

IdleCall ==
  [pc |-> "idle", language |-> "", code |-> "", inputSize |-> 0,
   startTime |-> 0, endTime |-> 0, tempDir |-> "none", sourceFile |-> FALSE,
   fullCode |-> <<>>, invoked |-> <<>>,
   child |-> "none", exitCode |-> NullCode, killed |-> FALSE,
   spawnTimer |-> "off", killTimer |-> "off", atDeadline |-> "pending",
   stderr |-> "", memoryPeak |-> 0, result |-> NoResult, hit |-> FALSE, hitAge |-> 0,
   expiryArmed |-> FALSE, expiryDue |-> 0]

\* a record of the store; an unset (null) column is "" or <<>>
NoAnalysis ==
  [exists |-> FALSE, code |-> <<>>, language |-> "", maxInputSize |-> 0,
   status |-> "", timeComplexityBest |-> "", timeComplexityAverage |-> "",
   timeComplexityWorst |-> "", spaceComplexity |-> "", algorithmName |-> "",
   algorithmCategory |-> "", algorithmType |-> "", executionResults |-> <<>>,
   warnings |-> <<>>, recommendations |-> <<>>, learningResources |-> <<>>,
   chartData |-> <<>>, completedAt |-> -1]

\* one invocation of analyzeCode / analyzeComplexity
IdleRun ==
  [pc |-> "idle", analysisId |-> 0, code |-> <<>>, language |-> "",
   maxInputSize |-> 0, i |-> 0, results |-> <<>>, error |-> "",
   failedAt |-> "none", finalExists |-> FALSE, finalStatus |-> "",
   finalWarnings |-> <<>>, caller |-> "none", response |-> ""]

\* a query of the client: failureCount is the retryer's count of failed
\* attempts that were followed by a retry
IdleQuery == [pc |-> "idle", failureCount |-> 0, error |-> "none", status |-> 0, delay |-> 0]

Max(a, b) == IF a >= b THEN a ELSE b

Min(a, b) == IF a <= b THEN a ELSE b

\* ------------------------------------------------------------------ cache
codeHash(code) == <<"sha256", code>>

cacheKey(language, code, inputSize) == <<language, codeHash(code), inputSize>>

CallKey(call) == cacheKey(call.language, call.code, call.inputSize)

CacheHas(key) == key \in DOMAIN executionCache

CacheSet(cache, key, entry) ==
  [k \in (DOMAIN cache) \cup {key} |-> IF k = key THEN entry ELSE cache[k]]

CacheDelete(cache, key) ==
  [k \in (DOMAIN cache) \ {key} |-> cache[k]]

ShouldCache_any(res) == TRUE

\* `if (result.status === "success")` guarding the cache insert
ShouldCache(res) == res.status = "success"

ExpiryDue_late(t) == t + CACHE_TTL + 1

\* setTimeout(() => executionCache.delete(cacheKey), CACHE_TTL)
ExpiryDue(t) == t + CACHE_TTL

\* --------------------------------------------------------- memory estimate
baseMemory(language) ==
  CASE language = "python" -> 15
    [] language = "javascript" -> 10
    [] language = "java" -> 25
    [] language = "cpp" -> 5
    [] OTHER -> 10

\* whole megabytes: log2(101) * 0.5 = 3.3, n * 0.001 <= 1, n^1.2 * 1e-6 < 1
calculateMemoryUsage(inputSize, language) ==
  LET scalingFactor == IF inputSize <= 100 THEN 3
                       ELSE IF inputSize <= 1000 THEN inputSize \div 1000
                       ELSE 0
  IN Max(baseMemory(language) + scalingFactor, baseMemory(language))

\* Math.random() * baseMemory * 0.1, in whole megabytes
Variances(inputSize, language) == 0..(calculateMemoryUsage(inputSize, language) \div 10)

\* --------------------------------------------------------- executeCode
RemoveTempDir_skip(dir, rmOk) == dir

\* `finally`: rmSync(tempDir) when a directory was created; when rmSync throws
\* the error is swallowed and the directory is left over
RemoveTempDir(dir, rmOk) ==
  IF dir = "exists" THEN (IF rmOk THEN "removed" ELSE "leftover") ELSE dir

ReturnFromCatch_rethrow(call, msg, rmOk) ==
  [call EXCEPT !.pc = "thrown", !.tempDir = RemoveTempDir(call.tempDir, rmOk)]

\* the `catch` branch of executeCode and its `finally`
ReturnFromCatch(call, msg, rmOk) ==
  [call EXCEPT !.pc = "returned",
               !.result = [inputSize |-> call.inputSize, runtime |-> now - call.startTime,
                           memoryUsage |-> 0, status |-> "error", error |-> msg],
               !.endTime = now,
               !.tempDir = RemoveTempDir(call.tempDir, rmOk)]

\* the result object built after `await runInSandbox`
ExecutionResultOf(call, status, err) ==
  [inputSize |-> call.inputSize, runtime |-> now - call.startTime,
   memoryUsage |-> call.memoryPeak, status |-> status, error |-> err]

\* the `try` branch after the await: cache insert, expiry timer, `finally`
ReturnFromTry(call, res, rmOk) ==
  [call EXCEPT !.pc = "returned",
               !.result = res,
               !.endTime = now,
               !.expiryArmed = ShouldCache(res),
               !.expiryDue = IF ShouldCache(res) THEN ExpiryDue(now) ELSE 0,
               !.tempDir = RemoveTempDir(call.tempDir, rmOk)]

\* ------------------------------------------------------------ the harness
\* Text is a sequence of tokens.  A token is a stretch of text that holds no
\* placeholder, no '$' and no function definition, or it is one of: a
\* placeholder, '$', the character after a '$', the keyword "def", the name of
\* a function, the body of a function (":pass" returns None).  The backtick
\* and the apostrophe are written BACKTICK and APOSTROPHE.
\* The four templates: fixed text, {USER_CODE}, fixed text that ends where the
\* test data is assigned, {TEST_INPUT}, fixed text (the timing wrapper)
codeTemplates(language) ==
  CASE language = "python" ->
         <<"import time, sys, gc, tracemalloc", "{USER_CODE}",
           "if __name__ == __main__: test_data = ", "{TEST_INPUT}", "python wrapper">>
    [] language = "javascript" ->
         <<"newline", "{USER_CODE}", "const testData = ", "{TEST_INPUT}", "javascript wrapper">>
    [] language = "java" ->
         <<"import java.util.*; public class Main {", "{USER_CODE}",
           "public static void main(String[] args) { int[] testData = ", "{TEST_INPUT}",
           "java wrapper">>
    [] language = "cpp" ->
         <<"#include <iostream> ...", "{USER_CODE}",
           "int main() { std::vector<int> testData = ", "{TEST_INPUT}", "cpp wrapper">>
    [] OTHER -> <<>>

\* array.join(', ') for the array 1..size
Numbers(size) ==
  CASE size = 100 -> "1, 2, ..., 100"
    [] size = 500 -> "1, 2, ..., 500"
    [] size = 1000 -> "1, 2, ..., 1000"
    [] size = 2000 -> "1, 2, ..., 2000"
    [] size = 5000 -> "1, 2, ..., 5000"
    [] OTHER -> "1, 2, ..., n"

generateTestInput(language, size) ==
  IF language \in {"java", "cpp"}
  THEN <<"{", Numbers(size), "}">>
  ELSE <<"[", Numbers(size), "]">>

\* GetSubstitution of String.prototype.replace for a string pattern: in the
\* replacement text $$ stands for '$', $& for the matched text, $` for the
\* text before the match, $' for the text after it
RECURSIVE GetSubstitution(_, _, _, _)
GetSubstitution(matched, before, after, replacement) ==
  IF replacement = <<>> THEN <<>>
  ELSE IF Head(replacement) = "$" /\ Len(replacement) >= 2
          /\ replacement[2] \in {"$", "&", "BACKTICK", "APOSTROPHE"}
  THEN (CASE replacement[2] = "$" -> <<"$">>
          [] replacement[2] = "&" -> matched
          [] replacement[2] = "BACKTICK" -> before
          [] replacement[2] = "APOSTROPHE" -> after)
       \o GetSubstitution(matched, before, after, SubSeq(replacement, 3, Len(replacement)))
  ELSE <<Head(replacement)>>
       \o GetSubstitution(matched, before, after, Tail(replacement))

\* text.replace(pattern, replacement) for a pattern of one token: the first
\* occurrence is replaced
replace(text, pattern, replacement) ==
  IF \A i \in 1..Len(text) : text[i] # pattern THEN text
  ELSE LET i == CHOOSE j \in 1..Len(text) :
                  text[j] = pattern /\ \A l \in 1..(j - 1) : text[l] # pattern
           before == SubSeq(text, 1, i - 1)
           after == SubSeq(text, i + 1, Len(text))
       IN before \o GetSubstitution(<<pattern>>, before, after, replacement) \o after

\* without a template the code is returned as it is
wrapCodeWithTesting(code, testInput, language) ==
  IF codeTemplates(language) = <<>> THEN code
  ELSE replace(replace(codeTemplates(language), "{USER_CODE}", code),
               "{TEST_INPUT}", testInput)

\* the text written to the source file
FullCode(call) ==
  wrapCodeWithTesting(call.code, generateTestInput(call.language, call.inputSize),
                      call.language)

\* the names the Python wrapper looks for
Conventions ==
  {"bubble_sort", "bubbleSort", "sort", "binary_search", "binarySearch", "search",
   "fibonacci", "fib"}

\* function_names: the functions defined in the file, in the order of their
\* definition
RECURSIVE FunctionNames(_)
FunctionNames(text) ==
  IF Len(text) < 2 THEN <<>>
  ELSE IF Head(text) = "def" THEN <<text[2]>> \o FunctionNames(Tail(text))
  ELSE FunctionNames(Tail(text))

\* the function of that name returns None
ReturnsNone(text, name) ==
  \E i \in 1..(Len(text) - 2) :
    text[i] = "def" /\ text[i + 1] = name /\ text[i + 2] = ":pass"

\* the functions the Python wrapper calls, in order: the first function whose
\* name is a convention, and then, `if result is None and function_names`, the
\* first function
PythonHarness(text) ==
  LET function_names == FunctionNames(text)
      matches == {k \in 1..Len(function_names) : function_names[k] \in Conventions}
      m == IF matches = {} THEN 0
           ELSE CHOOSE k \in matches : \A l \in matches : k <= l
      resultIsNone == m = 0 \/ ReturnsNone(text, function_names[m])
  IN (IF m # 0 THEN <<function_names[m]>> ELSE <<>>)
     \o (IF resultIsNone /\ function_names # <<>> THEN <<function_names[1]>> ELSE <<>>)

\* what the wrapper in the child has called when the child ends with `code`:
\* all of it on exit code 0, the calls up to an exception otherwise
Invoked(call, code) ==
  IF call.language # "python" THEN {<<>>}
  ELSE LET all == PythonHarness(call.fullCode)
       IN IF code = 0 THEN {all} ELSE {SubSeq(all, 1, n) : n \in 0..Len(all)}

getLanguageConfigThrows_never(language) == FALSE

\* getLanguageConfig: `default: throw new Error("Unsupported language: ...")`
getLanguageConfigThrows(language) == language \notin SupportedLanguages

\* runInSandbox up to the returned promise: the possible states of the call;
\* the code is wrapped, then getLanguageConfig comes before writeFileSync,
\* which writes the wrapped code and comes before spawn
runInSandbox(call) ==
  IF getLanguageConfigThrows(call.language)
  THEN {ReturnFromCatch(call, "Unsupported language", ~rmThrows) : rmThrows \in May("rm")}
  ELSE {ReturnFromCatch(call, "writeFileSync failed", ~rmThrows) :
            rmThrows \in {r \in May("rm") : "write" \in faults}}
       \cup
       {ReturnFromCatch([call EXCEPT !.sourceFile = TRUE, !.fullCode = FullCode(call)],
                        "spawn failed", ~rmThrows) :
            rmThrows \in {r \in May("rm") : "spawn" \in faults}}
       \cup
       {[call EXCEPT !.pc = "awaiting", !.child = "spawnfail", !.sourceFile = TRUE,
                     !.fullCode = FullCode(call),
                     !.spawnTimer = "armed", !.killTimer = "armed"] :
            x \in {f \in {"enoent"} : f \in faults}}
       \cup
       {[call EXCEPT !.pc = "awaiting", !.child = "alive", !.sourceFile = TRUE,
                     !.fullCode = FullCode(call),
                     !.spawnTimer = "armed", !.killTimer = "armed"]}

\* executeCode up to its first await: cache lookup, mkdtempSync, runInSandbox
executeCode(language, code, inputSize) ==
  LET key == cacheKey(language, code, inputSize)
      call == [IdleCall EXCEPT !.language = language, !.code = code,
                               !.inputSize = inputSize, !.startTime = now]
  IN IF CacheHas(key)
     THEN {[call EXCEPT !.pc = "returned",
                        !.result = executionCache[key].result,
                        !.hit = TRUE,
                        !.hitAge = now - executionCache[key].insertedAt,
                        !.endTime = now]}
     ELSE {ReturnFromCatch(call, "mkdtempSync failed", TRUE) :
               x \in {f \in {"mkdtemp"} : f \in faults}}
          \cup runInSandbox([call EXCEPT !.tempDir = "exists"])

Resolve_last(c, nc, status, err, rmOk) ==
  LET res == ExecutionResultOf(nc, status, err)
  IN /\ calls' = [calls EXCEPT ![c] = ReturnFromTry(nc, res, rmOk)]
     /\ executionCache' =
          IF ShouldCache(res)
          THEN CacheSet(executionCache, CallKey(nc),
                        [result |-> res, insertedAt |-> now, object |-> c])
          ELSE executionCache

\* resolve(...) of the runInSandbox promise, then the rest of executeCode;
\* only the first resolve has an effect.  The result object a call builds is
\* named by the call; executionCache.set stores that object, not a copy
Resolve(c, nc, status, err, rmOk) ==
  IF nc.pc = "awaiting"
  THEN LET res == ExecutionResultOf(nc, status, err)
       IN /\ calls' = [calls EXCEPT ![c] = ReturnFromTry(nc, res, rmOk)]
          /\ executionCache' =
               IF ShouldCache(res)
               THEN CacheSet(executionCache, CallKey(nc),
                        [result |-> res, insertedAt |-> now, object |-> c])
               ELSE executionCache
  ELSE /\ calls' = [calls EXCEPT ![c] = nc]
       /\ rmOk
       /\ UNCHANGED executionCache

\* a direct call of the exported executeCode
CallExecuteCode(c) ==
  /\ calls[c].pc = "idle"
  /\ \A d \in DirectCallIds : d < c => calls[d].pc # "idle"
  /\ \E language \in ExecLanguages, code \in ExecCodes, inputSize \in ExecSizes :
       \E nc \in executeCode(language, code, inputSize) :
          calls' = [calls EXCEPT ![c] = nc]
  /\ UNCHANGED <<now, executionCache, faults, queries, analyses, runs>>


\* ------------------------------------------------- child process and timers
\* ChildProcess.kill: the signal is sent, and `killed` set, while the handle
\* exists (the process has not ended)
HasHandle(call) == call.child = "alive"

HasPid(call) == call.child \in {"alive", "exited", "exitedHeld", "closed"}

Deadline(call) ==
  IF call.atDeadline # "pending" THEN call.atDeadline
  ELSE IF call.child = "alive" THEN "alive" ELSE "gone"

ExitMessage(code) ==
  CASE code = NullCode -> "Process exited with code null"
    [] code = SpawnErrno -> "Process exited with code -2"
    [] code = 1 -> "Process exited with code 1"
    [] OTHER -> "Process exited with code 0"

\* the process ends with `code`; 'exit' is processed in the same step (spawn's
\* timer is cleared); the stdio pipes may stay open, held by descendants
Ended(call, code, held) ==
  [call EXCEPT !.child = IF held THEN "exitedHeld" ELSE "exited",
               !.exitCode = code,
               !.spawnTimer = IF @ = "armed" THEN "cleared" ELSE @]

\* the child terminates by itself, after its wrapper has called user functions
ChildExits(c) ==
  /\ calls[c].child = "alive"
  /\ \E code \in ExitCodes, held \in May("pipes") :
       \E invoked \in Invoked(calls[c], code) :
         calls' = [calls EXCEPT ![c] = Ended([calls[c] EXCEPT !.invoked = invoked], code, held)]
  /\ UNCHANGED <<now, executionCache, faults, queries, analyses, runs>>

\* the timer of spawn's `timeout` option: child.kill('SIGTERM'), which the
\* child may survive
SpawnTimerFires(c) ==
  /\ calls[c].spawnTimer = "armed"
  /\ calls[c].child # "spawnfail"
  /\ LET call == calls[c]
         nc == [call EXCEPT !.spawnTimer = "fired",
                            !.atDeadline = Deadline(call),
                            !.killed = call.killed \/ HasHandle(call)]
     IN IF HasHandle(call)
        THEN \E survives \in May("sigterm"), held \in May("pipes") :
               /\ (survives => ~held)
               /\ calls' = [calls EXCEPT ![c] =
                              IF survives THEN nc ELSE Ended(nc, NullCode, held)]
        ELSE calls' = [calls EXCEPT ![c] = nc]
  /\ UNCHANGED <<now, executionCache, faults, queries, analyses, runs>>

\* the explicit setTimeout of runInSandbox
KillTimerFires(c) ==
  /\ calls[c].killTimer = "armed"
  /\ calls[c].child # "spawnfail"
  /\ LET call == calls[c]
         nc == [call EXCEPT !.killTimer = "fired", !.atDeadline = Deadline(call)]
     IN IF ~call.killed
        THEN \E rmThrows \in May("rm"), held \in May("pipes") :
               /\ (~HasHandle(call) => ~held)
               /\ Resolve(c, IF HasHandle(call)
                             THEN Ended([nc EXCEPT !.killed = TRUE], NullCode, held)
                             ELSE nc,
                          "timeout", "Execution timed out", ~rmThrows)
        ELSE /\ calls' = [calls EXCEPT ![c] = nc]
             /\ UNCHANGED executionCache
  /\ UNCHANGED <<now, faults, queries, analyses, runs>>

\* the descendants close the pipes
ReleasePipes(c) ==
  /\ calls[c].child = "exitedHeld"
  /\ calls' = [calls EXCEPT ![c].child = "exited"]
  /\ UNCHANGED <<now, executionCache, faults, queries, analyses, runs>>

\* child.on('close'); `stderr` is the text the 'data' handler has gathered
CloseEvent(c) ==
  /\ calls[c].child = "exited"
  /\ LET call == calls[c]
     IN \E stderr \in StderrTexts, rmThrows \in May("rm") :
          LET nc == [call EXCEPT !.child = "closed", !.stderr = stderr]
          IN IF call.exitCode = 0
             THEN Resolve(c, nc, "success", "", ~rmThrows)
             ELSE Resolve(c, nc, "error",
                          IF stderr # "" THEN stderr ELSE ExitMessage(call.exitCode), ~rmThrows)
  /\ UNCHANGED <<now, faults, queries, analyses, runs>>

\* child.on('error'): the spawn failed; 'close' follows
ErrorEvent(c) ==
  /\ calls[c].child = "spawnfail"
  /\ \E rmThrows \in May("rm") :
       Resolve(c, [calls[c] EXCEPT !.child = "exited", !.exitCode = SpawnErrno],
               "error", "spawn ENOENT", ~rmThrows)
  /\ UNCHANGED <<now, faults, queries, analyses, runs>>

\* the 100 ms memory interval, until it is cleared by the first resolve
MemorySample(c) ==
  /\ calls[c].pc = "awaiting"
  /\ HasPid(calls[c])
  /\ ~calls[c].killed
  /\ \E variance \in Variances(calls[c].inputSize, calls[c].language) :
       LET m == Max(calls[c].memoryPeak,
                    calculateMemoryUsage(calls[c].inputSize, calls[c].language) + variance)
       IN /\ m # calls[c].memoryPeak
          /\ calls' = [calls EXCEPT ![c].memoryPeak = m]
  /\ UNCHANGED <<now, executionCache, faults, queries, analyses, runs>>

\* the per-entry expiry timer of the cache
ExpiryFires(c) ==
  /\ calls[c].expiryArmed
  /\ calls[c].expiryDue <= now
  /\ calls' = [calls EXCEPT ![c].expiryArmed = FALSE]
  /\ executionCache' = CacheDelete(executionCache, CallKey(calls[c]))
  /\ UNCHANGED <<now, faults, queries, analyses, runs>>

\* something of the call is still to happen within seconds: its promise is
\* pending, a 10 s timer is armed, or an event of its child is due
Busy(call) ==
  \/ call.pc = "awaiting"
  \/ call.spawnTimer = "armed"
  \/ call.killTimer = "armed"
  \/ call.child \in {"spawnfail", "alive", "exited"}

\* one minute passes; no expiry timer is overdue, and what takes seconds
\* spans at most one minute boundary
Tick ==
  /\ now < MaxTime
  /\ \A c \in CallIds : calls[c].expiryArmed => calls[c].expiryDue > now
  /\ \A c \in CallIds : Busy(calls[c]) => calls[c].startTime = now
  /\ now' = now + 1
  /\ UNCHANGED <<executionCache, calls, faults, queries, analyses, runs>>

\* ------------------------------------------------------ executor alone
InitExec ==
  /\ now = 0
  /\ executionCache = <<>>
  /\ calls = [c \in CallIds |-> IdleCall]
  /\ faults = ExecFaults
  /\ queries = [q \in QueryIds |-> IdleQuery]
  /\ analyses = [id \in AnalysisIds |-> NoAnalysis]
  /\ runs = [r \in RunIds |-> IdleRun]

NextExec ==
  \/ \E c \in ExecCallIds : CallExecuteCode(c)
  \/ \E c \in ExecCallIds : ChildExits(c)
  \/ \E c \in ExecCallIds : SpawnTimerFires(c)
  \/ \E c \in ExecCallIds : KillTimerFires(c)
  \/ \E c \in ExecCallIds : ReleasePipes(c)
  \/ \E c \in ExecCallIds : CloseEvent(c)
  \/ \E c \in ExecCallIds : ErrorEvent(c)
  \/ \E c \in ExecCallIds : MemorySample(c)

SpecExec == InitExec /\ [][NextExec]_vars

\* timers fire and the events of a process that has ended are delivered; a
\* child need not end by itself and descendants need not release the pipes
FairnessExec ==
  \A c \in ExecCallIds :
    /\ WF_vars(SpawnTimerFires(c))
    /\ WF_vars(KillTimerFires(c))
    /\ WF_vars(CloseEvent(c))
    /\ WF_vars(ErrorEvent(c))

FairExec == SpecExec /\ FairnessExec

\* ------------------------------------------- executor, cache and clock
\* well-behaved executions (no injected fault, children that end within the
\* first memory-sampling interval or run into the timeout) over several
\* minutes: the cache entries and their expiry timers
InitCache ==
  /\ now = 0
  /\ executionCache = <<>>
  /\ calls = [c \in CallIds |-> IdleCall]
  /\ faults = {}
  /\ queries = [q \in QueryIds |-> IdleQuery]
  /\ analyses = [id \in AnalysisIds |-> NoAnalysis]
  /\ runs = [r \in RunIds |-> IdleRun]

NextCache ==
  \/ \E c \in DirectCallIds : CallExecuteCode(c)
  \/ \E c \in DirectCallIds : ChildExits(c)
  \/ \E c \in DirectCallIds : SpawnTimerFires(c)
  \/ \E c \in DirectCallIds : KillTimerFires(c)
  \/ \E c \in DirectCallIds : CloseEvent(c)
  \/ \E c \in DirectCallIds : ExpiryFires(c)
  \/ Tick

SpecCache == InitCache /\ [][NextCache]_vars

\* ===================================================================
\* The analyzer: catalog, classification, warnings
\* ===================================================================
\* Source text is a sequence of one-character strings.  Labels are written in
\* ASCII: "O(n^2)" for the source's O(n-squared), "O(n^3) or higher" for
\* O(n-cubed) or higher, "x" for the multiplication sign.
ALGORITHM_CATALOG ==
  <<
    [name |-> "Bubble Sort", category |-> "sorting",
     timeComplexityBest |-> "O(n)", timeComplexityAverage |-> "O(n^2)",
     timeComplexityWorst |-> "O(n^2)", spaceComplexity |-> "O(1)",
     keywords |-> <<<<"b", "u", "b", "b", "l", "e">>,
                    <<"b", "u", "b", "b", "l", "e", "S", "o", "r", "t">>,
                    <<"b", "u", "b", "b", "l", "e", "_", "s", "o", "r", "t">>>>],
    [name |-> "Quick Sort", category |-> "sorting",
     timeComplexityBest |-> "O(n log n)", timeComplexityAverage |-> "O(n log n)",
     timeComplexityWorst |-> "O(n^2)", spaceComplexity |-> "O(log n)",
     keywords |-> <<<<"q", "u", "i", "c", "k">>,
                    <<"q", "u", "i", "c", "k", "S", "o", "r", "t">>,
                    <<"q", "u", "i", "c", "k", "_", "s", "o", "r", "t">>>>],
    [name |-> "Merge Sort", category |-> "sorting",
     timeComplexityBest |-> "O(n log n)", timeComplexityAverage |-> "O(n log n)",
     timeComplexityWorst |-> "O(n log n)", spaceComplexity |-> "O(n)",
     keywords |-> <<<<"m", "e", "r", "g", "e">>,
                    <<"m", "e", "r", "g", "e", "S", "o", "r", "t">>,
                    <<"m", "e", "r", "g", "e", "_", "s", "o", "r", "t">>>>],
    [name |-> "Heap Sort", category |-> "sorting",
     timeComplexityBest |-> "O(n log n)", timeComplexityAverage |-> "O(n log n)",
     timeComplexityWorst |-> "O(n log n)", spaceComplexity |-> "O(1)",
     keywords |-> <<<<"h", "e", "a", "p">>,
                    <<"h", "e", "a", "p", "S", "o", "r", "t">>,
                    <<"h", "e", "a", "p", "_", "s", "o", "r", "t">>>>],
    [name |-> "Insertion Sort", category |-> "sorting",
     timeComplexityBest |-> "O(n)", timeComplexityAverage |-> "O(n^2)",
     timeComplexityWorst |-> "O(n^2)", spaceComplexity |-> "O(1)",
     keywords |-> <<<<"i", "n", "s", "e", "r", "t", "i", "o", "n">>,
                    <<"i", "n", "s", "e", "r", "t", "i", "o", "n", "S", "o", "r", "t">>,
                    <<"i", "n", "s", "e", "r", "t", "i", "o", "n", "_", "s", "o", "r", "t">>>>],
    [name |-> "Selection Sort", category |-> "sorting",
     timeComplexityBest |-> "O(n^2)", timeComplexityAverage |-> "O(n^2)",
     timeComplexityWorst |-> "O(n^2)", spaceComplexity |-> "O(1)",
     keywords |-> <<<<"s", "e", "l", "e", "c", "t", "i", "o", "n">>,
                    <<"s", "e", "l", "e", "c", "t", "i", "o", "n", "S", "o", "r", "t">>,
                    <<"s", "e", "l", "e", "c", "t", "i", "o", "n", "_", "s", "o", "r", "t">>>>],
    [name |-> "Binary Search", category |-> "searching",
     timeComplexityBest |-> "O(1)", timeComplexityAverage |-> "O(log n)",
     timeComplexityWorst |-> "O(log n)", spaceComplexity |-> "O(1)",
     keywords |-> <<<<"b", "i", "n", "a", "r", "y">>,
                    <<"b", "i", "n", "a", "r", "y", "S", "e", "a", "r", "c", "h">>,
                    <<"b", "i", "n", "a", "r", "y", "_", "s", "e", "a", "r", "c", "h">>>>],
    [name |-> "Linear Search", category |-> "searching",
     timeComplexityBest |-> "O(1)", timeComplexityAverage |-> "O(n)",
     timeComplexityWorst |-> "O(n)", spaceComplexity |-> "O(1)",
     keywords |-> <<<<"l", "i", "n", "e", "a", "r">>,
                    <<"l", "i", "n", "e", "a", "r", "S", "e", "a", "r", "c", "h">>,
                    <<"l", "i", "n", "e", "a", "r", "_", "s", "e", "a", "r", "c", "h">>,
                    <<"s", "e", "q", "u", "e", "n", "t", "i", "a", "l">>>>],
    [name |-> "Breadth-First Search (BFS)", category |-> "graph",
     timeComplexityBest |-> "O(V + E)", timeComplexityAverage |-> "O(V + E)",
     timeComplexityWorst |-> "O(V + E)", spaceComplexity |-> "O(V)",
     keywords |-> <<<<"b", "f", "s">>,
                    <<"b", "r", "e", "a", "d", "t", "h">>,
                    <<"b", "r", "e", "a", "d", "t", "h", "F", "i", "r", "s", "t">>,
                    <<"b", "r", "e", "a", "d", "t", "h", "_", "f", "i", "r", "s", "t">>>>],
    [name |-> "Depth-First Search (DFS)", category |-> "graph",
     timeComplexityBest |-> "O(V + E)", timeComplexityAverage |-> "O(V + E)",
     timeComplexityWorst |-> "O(V + E)", spaceComplexity |-> "O(V)",
     keywords |-> <<<<"d", "f", "s">>,
                    <<"d", "e", "p", "t", "h">>,
                    <<"d", "e", "p", "t", "h", "F", "i", "r", "s", "t">>,
                    <<"d", "e", "p", "t", "h", "_", "f", "i", "r", "s", "t">>>>],
    [name |-> "Dijkstra's Algorithm", category |-> "graph",
     timeComplexityBest |-> "O((V + E) log V)", timeComplexityAverage |-> "O((V + E) log V)",
     timeComplexityWorst |-> "O((V + E) log V)", spaceComplexity |-> "O(V)",
     keywords |-> <<<<"d", "i", "j", "k", "s", "t", "r", "a">>,
                    <<"d", "i", "j", "k", "s", "t", "r", "a", "s">>,
                    <<"s", "h", "o", "r", "t", "e", "s", "t">>,
                    <<"p", "a", "t", "h">>>>],
    [name |-> "Bellman-Ford Algorithm", category |-> "graph",
     timeComplexityBest |-> "O(VE)", timeComplexityAverage |-> "O(VE)",
     timeComplexityWorst |-> "O(VE)", spaceComplexity |-> "O(V)",
     keywords |-> <<<<"b", "e", "l", "l", "m", "a", "n">>,
                    <<"f", "o", "r", "d">>,
                    <<"b", "e", "l", "l", "m", "a", "n", "F", "o", "r", "d">>,
                    <<"b", "e", "l", "l", "m", "a", "n", "_", "f", "o", "r", "d">>>>],
    [name |-> "Fibonacci (Recursive)", category |-> "dynamic_programming",
     timeComplexityBest |-> "O(2^n)", timeComplexityAverage |-> "O(2^n)",
     timeComplexityWorst |-> "O(2^n)", spaceComplexity |-> "O(n)",
     keywords |-> <<<<"f", "i", "b", "o", "n", "a", "c", "c", "i">>,
                    <<"f", "i", "b">>,
                    <<"r", "e", "c", "u", "r", "s", "i", "v", "e">>>>],
    [name |-> "Fibonacci (Dynamic Programming)", category |-> "dynamic_programming",
     timeComplexityBest |-> "O(n)", timeComplexityAverage |-> "O(n)",
     timeComplexityWorst |-> "O(n)", spaceComplexity |-> "O(n)",
     keywords |-> <<<<"f", "i", "b", "o", "n", "a", "c", "c", "i">>,
                    <<"f", "i", "b">>,
                    <<"d", "p">>,
                    <<"d", "y", "n", "a", "m", "i", "c">>,
                    <<"m", "e", "m", "o", "i", "z", "a", "t", "i", "o", "n">>>>],
    [name |-> "Knapsack Problem (0/1)", category |-> "dynamic_programming",
     timeComplexityBest |-> "O(nW)", timeComplexityAverage |-> "O(nW)",
     timeComplexityWorst |-> "O(nW)", spaceComplexity |-> "O(nW)",
     keywords |-> <<<<"k", "n", "a", "p", "s", "a", "c", "k">>,
                    <<"d", "p">>,
                    <<"d", "y", "n", "a", "m", "i", "c">>,
                    <<"o", "p", "t", "i", "m", "i", "z", "a", "t", "i", "o", "n">>>>],
    [name |-> "Longest Common Subsequence", category |-> "dynamic_programming",
     timeComplexityBest |-> "O(mn)", timeComplexityAverage |-> "O(mn)",
     timeComplexityWorst |-> "O(mn)", spaceComplexity |-> "O(mn)",
     keywords |-> <<<<"l", "c", "s">>,
                    <<"l", "o", "n", "g", "e", "s", "t">>,
                    <<"c", "o", "m", "m", "o", "n">>,
                    <<"s", "u", "b", "s", "e", "q", "u", "e", "n", "c", "e">>>>],
    [name |-> "KMP Algorithm", category |-> "string_matching",
     timeComplexityBest |-> "O(n + m)", timeComplexityAverage |-> "O(n + m)",
     timeComplexityWorst |-> "O(n + m)", spaceComplexity |-> "O(m)",
     keywords |-> <<<<"k", "m", "p">>,
                    <<"k", "n", "u", "t", "h">>,
                    <<"m", "o", "r", "r", "i", "s">>,
                    <<"p", "r", "a", "t", "t">>,
                    <<"p", "a", "t", "t", "e", "r", "n">>>>],
    [name |-> "Rabin-Karp Algorithm", category |-> "string_matching",
     timeComplexityBest |-> "O(n + m)", timeComplexityAverage |-> "O(n + m)",
     timeComplexityWorst |-> "O(nm)", spaceComplexity |-> "O(1)",
     keywords |-> <<<<"r", "a", "b", "i", "n">>,
                    <<"k", "a", "r", "p">>,
                    <<"r", "o", "l", "l", "i", "n", "g">>,
                    <<"h", "a", "s", "h">>,
                    <<"p", "a", "t", "t", "e", "r", "n">>>>],
    [name |-> "Activity Selection Problem", category |-> "greedy",
     timeComplexityBest |-> "O(n log n)", timeComplexityAverage |-> "O(n log n)",
     timeComplexityWorst |-> "O(n log n)", spaceComplexity |-> "O(1)",
     keywords |-> <<<<"a", "c", "t", "i", "v", "i", "t", "y">>,
                    <<"s", "e", "l", "e", "c", "t", "i", "o", "n">>,
                    <<"g", "r", "e", "e", "d", "y">>,
                    <<"s", "c", "h", "e", "d", "u", "l", "i", "n", "g">>>>],
    [name |-> "Huffman Coding", category |-> "greedy",
     timeComplexityBest |-> "O(n log n)", timeComplexityAverage |-> "O(n log n)",
     timeComplexityWorst |-> "O(n log n)", spaceComplexity |-> "O(n)",
     keywords |-> <<<<"h", "u", "f", "f", "m", "a", "n">>,
                    <<"c", "o", "d", "i", "n", "g">>,
                    <<"c", "o", "m", "p", "r", "e", "s", "s", "i", "o", "n">>,
                    <<"g", "r", "e", "e", "d", "y">>>>],
    [name |-> "Traveling Salesman Problem (Brute Force)", category |-> "np_hard",
     timeComplexityBest |-> "O(n!)", timeComplexityAverage |-> "O(n!)",
     timeComplexityWorst |-> "O(n!)", spaceComplexity |-> "O(n)",
     keywords |-> <<<<"t", "s", "p">>,
                    <<"t", "r", "a", "v", "e", "l", "i", "n", "g">>,
                    <<"s", "a", "l", "e", "s", "m", "a", "n">>,
                    <<"b", "r", "u", "t", "e">>,
                    <<"f", "o", "r", "c", "e">>>>],
    [name |-> "Traveling Salesman Problem (DP)", category |-> "np_hard",
     timeComplexityBest |-> "O(n^2 x 2^n)", timeComplexityAverage |-> "O(n^2 x 2^n)",
     timeComplexityWorst |-> "O(n^2 x 2^n)", spaceComplexity |-> "O(n x 2^n)",
     keywords |-> <<<<"t", "s", "p">>,
                    <<"t", "r", "a", "v", "e", "l", "i", "n", "g">>,
                    <<"s", "a", "l", "e", "s", "m", "a", "n">>,
                    <<"d", "p">>,
                    <<"d", "y", "n", "a", "m", "i", "c">>,
                    <<"b", "i", "t", "m", "a", "s", "k">>>>]
  >>

toLowerCase(ch) ==
  CASE ch = "A" -> "a" []
    ch = "B" -> "b" []
    ch = "C" -> "c" []
    ch = "D" -> "d" []
    ch = "E" -> "e" []
    ch = "F" -> "f" []
    ch = "G" -> "g" []
    ch = "H" -> "h" []
    ch = "I" -> "i" []
    ch = "J" -> "j" []
    ch = "K" -> "k" []
    ch = "L" -> "l" []
    ch = "M" -> "m" []
    ch = "N" -> "n" []
    ch = "O" -> "o" []
    ch = "P" -> "p" []
    ch = "Q" -> "q" []
    ch = "R" -> "r" []
    ch = "S" -> "s" []
    ch = "T" -> "t" []
    ch = "U" -> "u" []
    ch = "V" -> "v" []
    ch = "W" -> "w" []
    ch = "X" -> "x" []
    ch = "Y" -> "y" []
    ch = "Z" -> "z" []
    OTHER -> ch

\* code.toLowerCase().replace(/[_\s]/g, '')
RECURSIVE normalized(_)
normalized(s) ==
  IF s = <<>> THEN <<>>
  ELSE LET ch == toLowerCase(Head(s))
       IN IF ch \in {"_", " ", "\n", "\t"}
          THEN normalized(Tail(s))
          ELSE <<ch>> \o normalized(Tail(s))

\* String.prototype.includes
includes(s, k) ==
  \E i \in 1..(Len(s) - Len(k) + 1) : SubSeq(s, i, i + Len(k) - 1) = k

\* keyword.toLowerCase().replace(/[_\s]/g, ''), for every keyword of the catalog
NormalizedKeywords ==
  [a \in 1..Len(ALGORITHM_CATALOG) |->
     [j \in 1..Len(ALGORITHM_CATALOG[a].keywords) |->
        normalized(ALGORITHM_CATALOG[a].keywords[j])]]

\* the loop over the catalog, from entry a on: the index of the first entry
\* one of whose keywords occurs in the normalised code; 0 for null
RECURSIVE FirstMatch(_, _)
FirstMatch(codeNormalized, a) ==
  IF a > Len(ALGORITHM_CATALOG) THEN 0
  ELSE IF \E j \in 1..Len(NormalizedKeywords[a]) :
            includes(codeNormalized, NormalizedKeywords[a][j])
  THEN a
  ELSE FirstMatch(codeNormalized, a + 1)

\* the code is normalised once, before the loop
detectAlgorithm(code) ==
  CHOOSE first \in {FirstMatch(codeNormalized, 1) : codeNormalized \in {normalized(code)}} : TRUE

IsSuccess_any(r) == TRUE

\* r => r.status === "success"
IsSuccess(r) == r.status = "success"

RECURSIVE GCD(_, _)
GCD(a, b) == IF b = 0 THEN a ELSE GCD(b, a % b)

\* a non-negative fraction in lowest terms
Frac(n, d) == LET g == GCD(n, d) IN [num |-> n \div g, den |-> d \div g]

FracAdd(x, y) == Frac(x.num * y.den + y.num * x.den, x.den * y.den)

\* the `ratios` array of detectTimeComplexity, from pair i on: its sum (an
\* exact fraction) and its length
RECURSIVE ratios(_, _)
ratios(results, i) ==
  IF i > Len(results) THEN [sum |-> Frac(0, 1), length |-> 0]
  ELSE LET rest == ratios(results, i + 1)
           prevResult == results[i - 1]
           currResult == results[i]
       IN IF prevResult.runtime > 0
          THEN [sum |-> FracAdd(rest.sum,
                                Frac(currResult.runtime * prevResult.inputSize,
                                     prevResult.runtime * currResult.inputSize)),
                length |-> rest.length + 1]
          ELSE rest

Below_orEqual(r, tenths) ==
  r.length > 0 /\ 10 * r.sum.num <= tenths * r.sum.den * r.length

\* avgRatio < tenths / 10, where avgRatio = sum / length; with length 0 the
\* quotient is NaN and every comparison is false
Below(r, tenths) ==
  r.length > 0 /\ 10 * r.sum.num < tenths * r.sum.den * r.length

detectTimeComplexity_cubic(results) == "O(n^3)"

detectTimeComplexity(results) ==
  IF Len(results) < 2 THEN "Unable to determine"
  ELSE LET r == ratios(results, 2)
       IN IF Below(r, 15) THEN "O(1)"
          ELSE IF Below(r, 30) THEN "O(log n)"
          ELSE IF Below(r, 50) THEN "O(n)"
          ELSE IF Below(r, 100) THEN "O(n log n)"
          ELSE IF Below(r, 200) THEN "O(n^2)"
          ELSE "O(n^3) or higher"

\* the sum of memoryUsage / inputSize over results i..
RECURSIVE memoryGrowth(_, _)
memoryGrowth(results, i) ==
  IF i > Len(results) THEN [sum |-> Frac(0, 1), length |-> 0]
  ELSE LET rest == memoryGrowth(results, i + 1)
       IN [sum |-> FracAdd(rest.sum, Frac(results[i].memoryUsage, results[i].inputSize)),
           length |-> rest.length + 1]

detectSpaceComplexity(results) ==
  LET r == memoryGrowth(results, 1)
  IN IF Below(r, 1) THEN "O(1)"
     ELSE IF Below(r, 10) THEN "O(log n)"
     ELSE "O(n)"

detectComplexity_empiricalFirst(results, code) ==
  LET successfulResults == SelectSeq(results, IsSuccess)
      empiricalComplexity == detectTimeComplexity(successfulResults)
  IN IF Len(successfulResults) >= 2
     THEN [timeComplexityBest |-> empiricalComplexity,
           timeComplexityAverage |-> empiricalComplexity,
           timeComplexityWorst |-> empiricalComplexity,
           spaceComplexity |-> detectSpaceComplexity(successfulResults),
           confidence |-> 6,
           algorithmName |-> "", algorithmCategory |-> "",
           algorithmType |-> "Unknown Algorithm",
           testResults |-> results]
     ELSE [timeComplexityBest |-> "Unable to determine",
           timeComplexityAverage |-> "Unable to determine",
           timeComplexityWorst |-> "Unable to determine",
           spaceComplexity |-> "Unable to determine",
           confidence |-> 0,
           algorithmName |-> "", algorithmCategory |-> "", algorithmType |-> "",
           testResults |-> results]

\* confidence is counted in tenths; an absent optional field is ""
detectComplexity(results, code) ==
  LET successfulResults == SelectSeq(results, IsSuccess)
      detectedAlgorithm == detectAlgorithm(code)
  IN IF detectedAlgorithm # 0
     THEN LET e == ALGORITHM_CATALOG[detectedAlgorithm]
          IN [timeComplexityBest |-> e.timeComplexityBest,
              timeComplexityAverage |-> e.timeComplexityAverage,
              timeComplexityWorst |-> e.timeComplexityWorst,
              spaceComplexity |-> e.spaceComplexity,
              confidence |-> 9,
              algorithmName |-> e.name,
              algorithmCategory |-> e.category,
              algorithmType |-> e.name,
              testResults |-> results]
     ELSE IF Len(successfulResults) < 2
     THEN [timeComplexityBest |-> "Unable to determine",
           timeComplexityAverage |-> "Unable to determine",
           timeComplexityWorst |-> "Unable to determine",
           spaceComplexity |-> "Unable to determine",
           confidence |-> 0,
           algorithmName |-> "", algorithmCategory |-> "", algorithmType |-> "",
           testResults |-> results]
     ELSE LET empiricalComplexity == detectTimeComplexity(successfulResults)
          IN [timeComplexityBest |-> empiricalComplexity,
              timeComplexityAverage |-> empiricalComplexity,
              timeComplexityWorst |-> empiricalComplexity,
              spaceComplexity |-> detectSpaceComplexity(successfulResults),
              confidence |-> 6,
              algorithmName |-> "", algorithmCategory |-> "",
              algorithmType |-> "Unknown Algorithm",
              testResults |-> results]

\* the input sizes of the results with the given status, in order
RECURSIVE SizesWith(_, _)
SizesWith(results, status) ==
  IF results = <<>> THEN <<>>
  ELSE (IF Head(results).status = status THEN <<Head(results).inputSize>> ELSE <<>>)
       \o SizesWith(Tail(results), status)

HasFactorial_never(label) == FALSE

\* timeComplexityWorst.includes("!"): of the labels that occur, only O(n!)
HasFactorial(label) == label = "O(n!)"

generateWarnings_quiet(results, analysis) == <<>>

\* a warning's message is its fixed text; the sizes that the text lists are
\* kept in `sizes`
generateWarnings(results, analysis) ==
  LET timeouts == SizesWith(results, "timeout")
      errors == SizesWith(results, "error")
  IN (IF Len(timeouts) > 0
      THEN <<[type |-> "timeout", message |-> "Execution timed out for input sizes",
              severity |-> "high", sizes |-> timeouts]>>
      ELSE <<>>)
     \o
     (IF Len(errors) > 0
      THEN <<[type |-> "error", message |-> "Execution failed for input sizes",
              severity |-> "high", sizes |-> errors]>>
      ELSE <<>>)
     \o
     (IF \/ analysis.timeComplexityWorst = "O(n^2)"
         \/ analysis.timeComplexityWorst = "O(n^3) or higher"
         \/ HasFactorial(analysis.timeComplexityWorst)
      THEN <<[type |-> "performance",
              message |-> "Algorithm has poor time complexity and may not scale well with large inputs",
              severity |-> "medium", sizes |-> <<>>]>>
      ELSE <<>>)
     \o
     (IF \E i \in 1..Len(results) : results[i].memoryUsage > 500
      THEN <<[type |-> "memory",
              message |-> "High memory usage detected - consider optimizing space complexity",
              severity |-> "medium", sizes |-> <<>>]>>
      ELSE <<>>)

\* the titles of the recommendations
generateRecommendations(analysis, language) ==
  (IF analysis.timeComplexityWorst = "O(n^2)" /\ analysis.algorithmCategory = "sorting"
   THEN <<"Consider using more efficient sorting algorithms">> ELSE <<>>)
  \o (IF language = "python" THEN <<"Use built-in functions when possible">> ELSE <<>>)
  \o <<"Learn about algorithm complexity">>

\* the titles of the learning resources; the resources of a catalog entry are
\* stood for by the entry's name
getLearningResources(algorithmCategory, algorithmName) ==
  <<"Big O Notation Explained", "Analysis of Algorithms">>
  \o (IF algorithmName # "" /\ \E a \in 1..Len(ALGORITHM_CATALOG) :
                                  ALGORITHM_CATALOG[a].name = algorithmName
      THEN <<algorithmName>> ELSE <<>>)
  \o (CASE algorithmCategory = "sorting" -> <<"Sorting Algorithms">>
        [] algorithmCategory = "searching" -> <<"Searching Algorithms">>
        [] algorithmCategory = "graph" -> <<"Graph Algorithms">>
        [] algorithmCategory = "dynamic_programming" -> <<"Dynamic Programming">>
        [] OTHER -> <<>>)

\* the labels of the two charts: the sizes of the successful results
generateChartData(results) == SizesWith(results, "success")

\* ===================================================================
\* The store, the routes and the analysis run
\* ===================================================================
\* field-level merge of a partial update
Merge(rec, updates) ==
  [f \in DOMAIN rec |-> IF f \in DOMAIN updates THEN updates[f] ELSE rec[f]]

\* storage.updateAnalysis: nothing happens for an unknown id; completedAt is
\* stamped the first time the status becomes 'completed'
updateAnalysis(store, id, updates) ==
  IF ~store[id].exists THEN store
  ELSE LET m == Merge(store[id], updates)
       IN [store EXCEPT ![id] =
             [m EXCEPT !.completedAt = IF m.status = "completed" /\ @ = -1 THEN now ELSE @]]

\* storage.createAnalysis
createAnalysis(code, language, maxInputSize) ==
  [NoAnalysis EXCEPT !.exists = TRUE, !.code = code, !.language = language,
                     !.maxInputSize = maxInputSize, !.status = "pending"]

\* analyzeCode: the run is scheduled with setTimeout(..., 100) and the call
\* returns to its caller
analyzeCode(r, id) ==
  [IdleRun EXCEPT !.pc = "scheduled", !.analysisId = id, !.caller = "returned"]

\* res.status(201).json(analysis): the response shows the record as created
Respond(run, analysis) == [run EXCEPT !.response = analysis.status]

Rejected_toCaller(run) == [run EXCEPT !.pc = "rejected", !.caller = "thrown"]

\* the promise of analyzeComplexity is rejected; the timer callback that
\* called it dropped the promise, so the rejection reaches no one
Rejected(run) == [run EXCEPT !.pc = "rejected"]

FreeRun(r) ==
  /\ runs[r].pc = "idle"
  /\ \A q \in RunIds : q < r => runs[q].pc # "idle"

\* POST /api/analyses
PostAnalysis(id, r) ==
  /\ ~analyses[id].exists
  /\ FreeRun(r)
  /\ \E code \in RunCodes, language \in RunLanguages, maxInputSize \in MaxInputSizes :
       analyses' = [analyses EXCEPT ![id] = createAnalysis(code, language, maxInputSize)]
  /\ runs' = [runs EXCEPT ![r] = Respond(analyzeCode(r, id), analyses'[id])]
  /\ UNCHANGED <<now, executionCache, calls, faults, queries>>

\* POST /api/analyses without maxInputSize: the column's default applies
PostDefaultAnalysis(id, r) ==
  /\ ~analyses[id].exists
  /\ FreeRun(r)
  /\ \E code \in RunCodes, language \in RunLanguages :
       analyses' = [analyses EXCEPT ![id] = createAnalysis(code, language, DefaultMaxInputSize)]
  /\ runs' = [runs EXCEPT ![r] = Respond(analyzeCode(r, id), analyses'[id])]
  /\ UNCHANGED <<now, executionCache, calls, faults, queries>>

\* a direct call of the exported analyzeCode, for any id
CallAnalyzeCode(id, r) ==
  /\ FreeRun(r)
  /\ runs' = [runs EXCEPT ![r] = analyzeCode(r, id)]
  /\ UNCHANGED <<now, executionCache, calls, faults, queries, analyses>>

\* PATCH /api/analyses/:id with a body that sets the status
PatchAnalysis(id) ==
  /\ analyses[id].exists
  /\ \E status \in PatchStatuses :
       analyses' = updateAnalysis(analyses, id, [status |-> status])
  /\ UNCHANGED <<now, executionCache, calls, faults, queries, runs>>

\* a throw inside the try block: control goes to the catch handler
Thrown(run, message, step) ==
  [run EXCEPT !.pc = "catch", !.error = message, !.failedAt = step]

\* the run has returned: what the record shows at that moment
Done(run, store) ==
  [run EXCEPT !.pc = "done",
              !.finalExists = store[run.analysisId].exists,
              !.finalStatus = store[run.analysisId].status,
              !.finalWarnings = store[run.analysisId].warnings]

\* const analysis = await storage.getAnalysis(analysisId)
RunGet(r) ==
  /\ runs[r].pc = "scheduled"
  /\ LET run == runs[r]
         rec == analyses[run.analysisId]
     IN \E throws \in May("store") :
          runs' = [runs EXCEPT ![r] =
            IF throws THEN Thrown(run, "store failure", "getAnalysis")
            ELSE IF ~rec.exists THEN Thrown(run, "Analysis not found", "notFound")
            ELSE [run EXCEPT !.pc = "got", !.code = rec.code,
                             !.language = rec.language,
                             !.maxInputSize = rec.maxInputSize]]
  /\ UNCHANGED <<now, executionCache, calls, faults, queries, analyses>>

\* await storage.updateAnalysis(analysisId, { status: "running" })
RunSetRunning(r) ==
  /\ runs[r].pc = "got"
  /\ \E throws \in May("store") :
       IF throws
       THEN /\ runs' = [runs EXCEPT ![r] = Thrown(runs[r], "store failure", "updateRunning")]
            /\ UNCHANGED analyses
       ELSE /\ analyses' = updateAnalysis(analyses, runs[r].analysisId, [status |-> "running"])
            /\ runs' = [runs EXCEPT ![r].pc = "execute", ![r].i = 1]
  /\ UNCHANGED <<now, executionCache, calls, faults, queries>>

InputSizes_all(ladder, maxInputSize) == ladder

\* INPUT_SIZES.filter(size => size <= analysis.maxInputSize)
RECURSIVE InputSizes(_, _)
InputSizes(ladder, maxInputSize) ==
  IF ladder = <<>> THEN <<>>
  ELSE (IF Head(ladder) <= maxInputSize THEN <<Head(ladder)>> ELSE <<>>)
       \o InputSizes(Tail(ladder), maxInputSize)

\* the positions, in the size list, of the batch that starts at run.i:
\* inputSizes.slice(i, i + MAX_PARALLEL_EXECUTIONS)
Batch(run) ==
  run.i .. Min(run.i + MAX_PARALLEL_EXECUTIONS - 1,
               Len(InputSizes(INPUT_SIZES, run.maxInputSize)))

\* executeCodeParallel, one iteration of its loop up to `await Promise.all`:
\* every execution of the batch is started; after the last batch the results
\* are returned
RunBatch(r) ==
  /\ runs[r].pc = "execute"
  /\ LET run == runs[r]
         inputSizes == InputSizes(INPUT_SIZES, run.maxInputSize)
     IN \E throws \in May("executor") :
          IF throws
          THEN /\ runs' = [runs EXCEPT ![r] = Thrown(run, "executor failure", "execute")]
               /\ UNCHANGED calls
          ELSE IF run.i > Len(inputSizes)
          THEN /\ runs' = [runs EXCEPT ![r].pc = "classify"]
               /\ UNCHANGED calls
          ELSE /\ runs' = [runs EXCEPT ![r].pc = "batch"]
               /\ \E started \in [Batch(run) ->
                                    UNION {executeCode(run.language, run.code, inputSizes[j]) :
                                             j \in Batch(run)}] :
                    /\ \A j \in Batch(run) :
                         started[j] \in executeCode(run.language, run.code, inputSizes[j])
                    /\ calls' = [c \in CallIds |->
                                   IF \E j \in Batch(run) : c = RunSlot(r, j)
                                   THEN started[c - RunSlot(r, 0)]
                                   ELSE calls[c]]
  /\ UNCHANGED <<now, executionCache, faults, queries, analyses>>

HasError_never(batchResults) == FALSE

HasError_onlyError(batchResults) ==
  \E k \in 1..Len(batchResults) : batchResults[k].status = "error"

\* batchResults.some(result => status === "error" || status === "timeout")
HasError(batchResults) ==
  \E k \in 1..Len(batchResults) : batchResults[k].status \in {"error", "timeout"}

BatchSettled_any(r) ==
  \E j \in Batch(runs[r]) : calls[RunSlot(r, j)].pc = "returned"

\* Promise.all(batchPromises) is fulfilled: every execution of the batch has
\* returned
BatchSettled(r) ==
  \A j \in Batch(runs[r]) : calls[RunSlot(r, j)].pc = "returned"

BatchResults_reversed(r) ==
  [k \in 1..Cardinality(Batch(runs[r])) |->
     calls[RunSlot(r, runs[r].i + Cardinality(Batch(runs[r])) - k)].result]

\* the value of Promise.all: the results in the order of the promises, which
\* is the order of the sizes of the batch
BatchResults(r) ==
  [k \in 1..Cardinality(Batch(runs[r])) |-> calls[RunSlot(r, runs[r].i + k - 1)].result]

\* the continuation of `await Promise.all(batchPromises)`: the results of the
\* batch are appended, in the order of the sizes; the loop ends on a failure
RunCollect(r) ==
  /\ runs[r].pc = "batch"
  /\ BatchSettled(r)
  /\ LET run == runs[r]
         batchResults == BatchResults(r)
     IN runs' = [runs EXCEPT ![r] =
                   [run EXCEPT !.results = run.results \o batchResults,
                               !.i = run.i + MAX_PARALLEL_EXECUTIONS,
                               !.pc = IF HasError(batchResults) THEN "classify" ELSE "execute"]]
  /\ UNCHANGED <<now, executionCache, calls, faults, queries, analyses>>

\* the update that completes the run
CompletedUpdate(run, complexityAnalysis) ==
     [status |-> "completed",
      timeComplexityBest |-> complexityAnalysis.timeComplexityBest,
      timeComplexityAverage |-> complexityAnalysis.timeComplexityAverage,
      timeComplexityWorst |-> complexityAnalysis.timeComplexityWorst,
      spaceComplexity |-> complexityAnalysis.spaceComplexity,
      algorithmName |-> complexityAnalysis.algorithmName,
      algorithmCategory |-> complexityAnalysis.algorithmCategory,
      algorithmType |-> complexityAnalysis.algorithmType,
      executionResults |-> run.results,
      warnings |-> generateWarnings(run.results, complexityAnalysis),
      recommendations |-> generateRecommendations(complexityAnalysis, run.language),
      learningResources |-> getLearningResources(complexityAnalysis.algorithmCategory,
                                                 complexityAnalysis.algorithmName),
      chartData |-> generateChartData(run.results)]

\* classification, warnings, recommendations, then
\* await storage.updateAnalysis(analysisId, { status: "completed", ... })
RunComplete(r) ==
  /\ runs[r].pc = "classify"
  /\ \E classifyThrows \in May("classify"), isError \in BOOLEAN, storeThrows \in May("store") :
       IF classifyThrows
       THEN /\ ~storeThrows
            /\ runs' = [runs EXCEPT ![r] =
                 Thrown(runs[r], IF isError THEN "classify failure" ELSE "Analysis failed",
                        "classify")]
            /\ UNCHANGED analyses
       ELSE IF storeThrows
       THEN /\ isError
            /\ runs' = [runs EXCEPT ![r] = Thrown(runs[r], "store failure", "updateCompleted")]
            /\ UNCHANGED analyses
       ELSE \E complexityAnalysis \in {detectComplexity(runs[r].results, runs[r].code)} :
              \E store \in {updateAnalysis(analyses, runs[r].analysisId,
                                           CompletedUpdate(runs[r], complexityAnalysis))} :
                /\ isError
                /\ analyses' = store
                /\ runs' = [runs EXCEPT ![r] = Done(runs[r], store)]
  /\ UNCHANGED <<now, executionCache, calls, faults, queries>>

CatchUpdate_nowarn(message) == [status |-> "error"]

\* the update of the catch handler
CatchUpdate(message) ==
  [status |-> "error",
   warnings |-> <<[type |-> "error", message |-> message, severity |-> "high",
                   sizes |-> <<>>]>>]

\* catch (error) { await storage.updateAnalysis(analysisId, { status: "error", ... }) };
\* when this update throws too, the promise of the run is rejected
RunCatch(r) ==
  /\ runs[r].pc = "catch"
  /\ \E throws \in May("store") :
       IF throws
       THEN /\ runs' = [runs EXCEPT ![r] = Rejected(runs[r])]
            /\ UNCHANGED analyses
       ELSE \E store \in {updateAnalysis(analyses, runs[r].analysisId,
                                           CatchUpdate(runs[r].error))} :
              /\ analyses' = store
              /\ runs' = [runs EXCEPT ![r] = Done(runs[r], store)]
  /\ UNCHANGED <<now, executionCache, calls, faults, queries>>

InitRun ==
  /\ now = 0
  /\ executionCache = <<>>
  /\ calls = [c \in CallIds |-> IdleCall]
  /\ faults = RunFaults
  /\ queries = [q \in QueryIds |-> IdleQuery]
  /\ analyses = [id \in AnalysisIds |-> NoAnalysis]
  /\ runs = [r \in RunIds |-> IdleRun]

RunSteps ==
  \/ \E r \in RunIds : RunGet(r)
  \/ \E r \in RunIds : RunSetRunning(r)
  \/ \E r \in RunIds : RunBatch(r)
  \/ \E r \in RunIds : RunCollect(r)
  \/ \E r \in RunIds : RunComplete(r)
  \/ \E r \in RunIds : RunCatch(r)

ChildSteps ==
  \/ \E c \in RunCallIds : ChildExits(c)
  \/ \E c \in RunCallIds : SpawnTimerFires(c)
  \/ \E c \in RunCallIds : KillTimerFires(c)
  \/ \E c \in RunCallIds : CloseEvent(c)

NextRun ==
  \/ \E id \in AnalysisIds, r \in RunIds : PostAnalysis(id, r)
  \/ \E id \in AnalysisIds, r \in RunIds : CallAnalyzeCode(id, r)
  \/ \E id \in AnalysisIds : PatchAnalysis(id)
  \/ RunSteps
  \/ ChildSteps

SpecRun == InitRun /\ [][NextRun]_vars

\* runs started on records that exist or not, with children that may survive
\* SIGTERM; the timers, the 'close' events and the continuations of the run are
\* scheduled by the event loop, so they are taken when they stay enabled
InitFairRun ==
  /\ now = 0
  /\ executionCache = <<>>
  /\ calls = [c \in CallIds |-> IdleCall]
  /\ faults = {"sigterm"}
  /\ queries = [q \in QueryIds |-> IdleQuery]
  /\ analyses = [id \in AnalysisIds |-> NoAnalysis]
  /\ runs = [r \in RunIds |-> IdleRun]

NextFairRun ==
  \/ \E id \in AnalysisIds, r \in RunIds : PostAnalysis(id, r)
  \/ \E id \in AnalysisIds, r \in RunIds : CallAnalyzeCode(id, r)
  \/ RunSteps
  \/ ChildSteps

\* the callbacks the event loop runs on its own: timers and 'close' events
EventLoopSteps ==
  \/ \E c \in RunCallIds : SpawnTimerFires(c)
  \/ \E c \in RunCallIds : KillTimerFires(c)
  \/ \E c \in RunCallIds : CloseEvent(c)

\* a behaviour takes finitely many steps (runs and calls are never restarted),
\* so fairness on each group is fairness on each of its actions
FairnessRun ==
  /\ WF_vars(RunSteps)
  /\ WF_vars(EventLoopSteps)

FairRun == InitFairRun /\ [][NextFairRun]_vars /\ FairnessRun

\* runs over the whole ladder (two batches: four sizes, then one), with
\* children that exit with any code or run into either timer
InitBatch ==
  /\ now = 0
  /\ executionCache = <<>>
  /\ calls = [c \in CallIds |-> IdleCall]
  /\ faults = {"executor"}
  /\ queries = [q \in QueryIds |-> IdleQuery]
  /\ analyses = [id \in AnalysisIds |-> NoAnalysis]
  /\ runs = [r \in RunIds |-> IdleRun]

NextBatch ==
  \/ \E id \in AnalysisIds, r \in RunIds : PostDefaultAnalysis(id, r)
  \/ RunSteps
  \/ ChildSteps

SpecBatch == InitBatch /\ [][NextBatch]_vars

\* ------------------------------------------------ the classification alone
\* Runs that have gathered their results and are about to classify them.  The
\* results are drawn from a set: one outcome for each requested size of a
\* ladder of at most three sizes (one group).  Runtimes are whole numbers of
\* an arbitrary unit: the classification only uses their quotients.
ClassifyCodes == {PlainCode, BubbleCode, BfsCode}
ClassifyMaxInputSizes == {50, 100, 500, 1000}
SuccessRuntimes == {0, 1, 2, 7, 15, 25, 29, 49, 50, 99, 100, 199, 201}

Outcomes(language, inputSize) ==
  {[inputSize |-> inputSize, runtime |-> t,
    memoryUsage |-> calculateMemoryUsage(inputSize, language),
    status |-> "success", error |-> ""] : t \in SuccessRuntimes}
  \cup
  {[inputSize |-> inputSize, runtime |-> 1, memoryUsage |-> 0,
    status |-> "error", error |-> ExitMessage(1)],
   [inputSize |-> inputSize, runtime |-> 1, memoryUsage |-> 0,
    status |-> "timeout", error |-> "Execution timed out"]}

\* the arrays executeCodeParallel can return for the sizes requested
ResultLists(language, maxInputSize) ==
  LET sizes == InputSizes(INPUT_SIZES, maxInputSize)
  IN {results \in [1..Len(sizes) -> UNION {Outcomes(language, sizes[k]) : k \in 1..Len(sizes)}] :
        \A k \in 1..Len(sizes) : results[k].inputSize = sizes[k]}

InitClassify ==
  /\ now = 0
  /\ executionCache = <<>>
  /\ calls = [c \in CallIds |-> IdleCall]
  /\ faults = {}
  /\ queries = [q \in QueryIds |-> IdleQuery]
  /\ \E code \in ClassifyCodes, language \in RunLanguages,
        maxInputSize \in ClassifyMaxInputSizes :
       \E results \in ResultLists(language, maxInputSize) :
         /\ analyses = [id \in AnalysisIds |->
                          IF id = 1
                          THEN [createAnalysis(code, language, maxInputSize)
                                  EXCEPT !.status = "running"]
                          ELSE NoAnalysis]
         /\ runs = [r \in RunIds |->
                      IF r = 1
                      THEN [analyzeCode(r, 1) EXCEPT !.pc = "classify", !.response = "pending",
                                           !.code = code, !.language = language,
                                           !.maxInputSize = maxInputSize,
                                           !.i = 1 + MAX_PARALLEL_EXECUTIONS,
                                           !.results = results]
                      ELSE IdleRun]

NextClassify == \E r \in RunIds : RunComplete(r)

SpecClassify == InitClassify /\ [][NextClassify]_vars

\* ------------------------------------------------------ the warnings alone
\* Runs about to classify results of every status.  generateWarnings is total
\* on result lists, so a memoryUsage above its limit of 500 MB is drawn too,
\* although the executor's estimate stays far below it.  The runtimes 1, 50
\* and 100 over the sizes 100 and 500 give the means 0.2, 10 and 20.
TspCode == <<"d", "e", "f", " ", "t", "s", "p">>
WarningCodes == {PlainCode, BubbleCode, BfsCode, TspCode}
WarningMaxInputSizes == {50, 100, 500, 1000}
WarningRuntimes == {1, 50, 100}

WarningOutcomes(language, inputSize) ==
  {[inputSize |-> inputSize, runtime |-> t, memoryUsage |-> m,
    status |-> "success", error |-> ""] :
      t \in WarningRuntimes, m \in {calculateMemoryUsage(inputSize, language), 501}}
  \cup
  {[inputSize |-> inputSize, runtime |-> 1, memoryUsage |-> 0,
    status |-> "error", error |-> ExitMessage(1)],
   [inputSize |-> inputSize, runtime |-> 1, memoryUsage |-> 0,
    status |-> "timeout", error |-> "Execution timed out"]}

\* the lists handed to generateWarnings: one result of any status for each
\* size (the warnings do not depend on where the list was cut)
WarningResultLists(language, maxInputSize) ==
  LET sizes == InputSizes(INPUT_SIZES, maxInputSize)
  IN {results \in [1..Len(sizes) ->
                     UNION {WarningOutcomes(language, sizes[k]) : k \in 1..Len(sizes)}] :
        \A k \in 1..Len(sizes) : results[k].inputSize = sizes[k]}

InitWarnings ==
  /\ now = 0
  /\ executionCache = <<>>
  /\ calls = [c \in CallIds |-> IdleCall]
  /\ faults = {}
  /\ queries = [q \in QueryIds |-> IdleQuery]
  /\ \E code \in WarningCodes, language \in RunLanguages,
        maxInputSize \in WarningMaxInputSizes :
       \E results \in WarningResultLists(language, maxInputSize) :
         /\ analyses = [id \in AnalysisIds |->
                          IF id = 1
                          THEN [createAnalysis(code, language, maxInputSize)
                                  EXCEPT !.status = "running"]
                          ELSE NoAnalysis]
         /\ runs = [r \in RunIds |->
                      IF r = 1
                      THEN [analyzeCode(r, 1) EXCEPT !.pc = "classify", !.response = "pending",
                                           !.code = code, !.language = language,
                                           !.maxInputSize = maxInputSize,
                                           !.i = 1 + MAX_PARALLEL_EXECUTIONS,
                                           !.results = results]
                      ELSE IdleRun]

NextWarnings == \E r \in RunIds : RunComplete(r)

SpecWarnings == InitWarnings /\ [][NextWarnings]_vars

\* ------------------------------------------- callers that change results
\* what a caller writes into the runtime field of a result it was handed
Tampered == -1

\* the caller of call c assigns to a field of the object it was handed; the
\* cache entry that holds the same object shows the assignment
MutateResult(c) ==
  /\ calls[c].pc = "returned"
  /\ calls[c].result.runtime # Tampered
  /\ calls' = [calls EXCEPT ![c].result.runtime = Tampered]
  /\ executionCache' =
       [k \in DOMAIN executionCache |->
          IF executionCache[k].object = c
          THEN [executionCache[k] EXCEPT !.result.runtime = Tampered]
          ELSE executionCache[k]]
  /\ UNCHANGED <<now, faults, queries, analyses, runs>>

NextAlias ==
  \/ \E c \in DirectCallIds : CallExecuteCode(c)
  \/ \E c \in DirectCallIds : ChildExits(c)
  \/ \E c \in DirectCallIds : SpawnTimerFires(c)
  \/ \E c \in DirectCallIds : KillTimerFires(c)
  \/ \E c \in DirectCallIds : CloseEvent(c)
  \/ \E c \in DirectCallIds : MutateResult(c)

SpecAlias == InitCache /\ [][NextAlias]_vars

\* ===================================================================
\* The client: queries and their retry policy
\* ===================================================================
\* the errors a query function throws: a NetworkError with the status of the
\* response (0 for a timeout), or another error (fetch itself rejecting)
QueryErrors ==
  {[error |-> "NetworkError", status |-> st] : st \in {0, 304, 404, 408, 429, 500, 503}}
  \cup {[error |-> "TypeError", status |-> 0]}

getRetryDelay(attemptIndex) == Min(1000 * (2 ^ attemptIndex), 30000)

shouldRetry(error, failureCount) ==
  IF error.error = "NetworkError"
  THEN IF error.status >= 400 /\ error.status < 500
       THEN error.status = 408 \/ error.status = 429
       ELSE error.status >= 500 \/ error.status = 0
  ELSE failureCount < 3

\* a query is fetched
Fetch(q) ==
  /\ queries[q].pc = "idle"
  /\ queries' = [queries EXCEPT ![q].pc = "fetching"]
  /\ UNCHANGED <<now, executionCache, calls, faults, analyses, runs>>

\* the query function resolves
FetchSucceeds(q) ==
  /\ queries[q].pc = "fetching"
  /\ queries' = [queries EXCEPT ![q].pc = "success"]
  /\ UNCHANGED <<now, executionCache, calls, faults, analyses, runs>>

\* the query function rejects: the retryer asks retry(failureCount, error),
\* which is shouldRetry(error, failureCount); when it grants a retry the
\* count goes up and the retry waits for retryDelay(failureCount)
FetchFails(q) ==
  /\ queries[q].pc = "fetching"
  /\ queries[q].failureCount < MaxFailures
  /\ \E error \in QueryErrors :
       queries' = [queries EXCEPT ![q] =
         IF shouldRetry(error, queries[q].failureCount)
         THEN [pc |-> "waiting", failureCount |-> queries[q].failureCount + 1,
               error |-> error.error, status |-> error.status,
               delay |-> getRetryDelay(queries[q].failureCount)]
         ELSE [pc |-> "failed", failureCount |-> queries[q].failureCount,
               error |-> error.error, status |-> error.status, delay |-> 0]]
  /\ UNCHANGED <<now, executionCache, calls, faults, analyses, runs>>

\* the delay has passed: the query function is called again
RetryTimerFires(q) ==
  /\ queries[q].pc = "waiting"
  /\ queries' = [queries EXCEPT ![q].pc = "fetching", ![q].delay = 0]
  /\ UNCHANGED <<now, executionCache, calls, faults, analyses, runs>>

InitQuery ==
  /\ now = 0
  /\ executionCache = <<>>
  /\ calls = [c \in CallIds |-> IdleCall]
  /\ faults = {}
  /\ queries = [q \in QueryIds |-> IdleQuery]
  /\ analyses = [id \in AnalysisIds |-> NoAnalysis]
  /\ runs = [r \in RunIds |-> IdleRun]

NextQuery ==
  \/ \E q \in QueryIds : Fetch(q)
  \/ \E q \in QueryIds : FetchSucceeds(q)
  \/ \E q \in QueryIds : FetchFails(q)
  \/ \E q \in QueryIds : RetryTimerFires(q)

SpecQuery == InitQuery /\ [][NextQuery]_vars

\* ------------------------------------------------------ the harness alone
\* One execution, in every supported language, of source texts that define
\* functions with and without a conventional name, returning a value or None,
\* and of source texts that hold a placeholder or a replacement pattern
InPlaceSort == <<"def", "bubble_sort", ":pass">>
ReturningSort == <<"def", "bubble_sort", ":return arr">>
SortWithHelper == <<"def", "swap", ":pass", "def", "bubble_sort", ":pass">>
Unconventional == <<"def", "solve", ":return arr">>
FunctionCodes == {InPlaceSort, ReturningSort, SortWithHelper, Unconventional}

PatternCodes ==
  {<<"def", "show", ":return", "$", x>> : x \in {"$", "&", "BACKTICK", "APOSTROPHE"}}
  \cup {<<"def", "show", ":return", x>> : x \in {"{TEST_INPUT}", "{USER_CODE}"}}

HarnessCodes == FunctionCodes \cup PatternCodes
HarnessCallIds == {1}

\* a direct call of the exported executeCode on one of these texts
CallExecuteHarness(c) ==
  /\ calls[c].pc = "idle"
  /\ \E language \in SupportedLanguages, code \in HarnessCodes, inputSize \in ExecSizes :
       \E nc \in executeCode(language, code, inputSize) :
          calls' = [calls EXCEPT ![c] = nc]
  /\ UNCHANGED <<now, executionCache, faults, queries, analyses, runs>>

InitHarness ==
  /\ now = 0
  /\ executionCache = <<>>
  /\ calls = [c \in CallIds |-> IdleCall]
  /\ faults = {}
  /\ queries = [q \in QueryIds |-> IdleQuery]
  /\ analyses = [id \in AnalysisIds |-> NoAnalysis]
  /\ runs = [r \in RunIds |-> IdleRun]

NextHarness ==
  \/ \E c \in HarnessCallIds : CallExecuteHarness(c)
  \/ \E c \in HarnessCallIds : ChildExits(c)
  \/ \E c \in HarnessCallIds : SpawnTimerFires(c)
  \/ \E c \in HarnessCallIds : KillTimerFires(c)
  \/ \E c \in HarnessCallIds : CloseEvent(c)

SpecHarness == InitHarness /\ [][NextHarness]_vars

\* ------------------------------------------------- runs over every ladder
\* Runs without injected faults on records whose maxInputSize lies below the
\* ladder, inside it (four sizes: one group) and above it (five sizes: two
\* groups); the children exit with any code or run into either timer.
LadderMaxInputSizes == {50, 2000, DefaultMaxInputSize}

\* POST /api/analyses with a maxInputSize below, inside or above the ladder
PostLadderAnalysis(id, r) ==
  /\ ~analyses[id].exists
  /\ FreeRun(r)
  /\ \E code \in RunCodes, language \in RunLanguages, maxInputSize \in LadderMaxInputSizes :
       analyses' = [analyses EXCEPT ![id] = createAnalysis(code, language, maxInputSize)]
  /\ runs' = [runs EXCEPT ![r] = Respond(analyzeCode(r, id), analyses'[id])]
  /\ UNCHANGED <<now, executionCache, calls, faults, queries>>

InitLadder ==
  /\ now = 0
  /\ executionCache = <<>>
  /\ calls = [c \in CallIds |-> IdleCall]
  /\ faults = {}
  /\ queries = [q \in QueryIds |-> IdleQuery]
  /\ analyses = [id \in AnalysisIds |-> NoAnalysis]
  /\ runs = [r \in RunIds |-> IdleRun]

\* with no fault nothing throws: the catch handler is never entered
NextLadder ==
  \/ \E id \in AnalysisIds, r \in RunIds : PostLadderAnalysis(id, r)
  \/ \E r \in RunIds : RunGet(r)
  \/ \E r \in RunIds : RunSetRunning(r)
  \/ \E r \in RunIds : RunBatch(r)
  \/ \E r \in RunIds : RunCollect(r)
  \/ \E r \in RunIds : RunComplete(r)
  \/ ChildSteps

SpecLadder == InitLadder /\ [][NextLadder]_vars

\* ===================================================================
\* Properties of the analysis run
\* ===================================================================

\* C1: when a run on an existing record has failed at a step of its try block
\* (getAnalysis, the update to 'running', executeCodeParallel, the
\* classification, the update to 'completed') and has returned, the record
\* has status 'error' and a non-empty warnings list, not 'running'.
C1_FailureIsRecorded ==
  \A r \in RunIds :
    (/\ runs[r].pc = "done"
     /\ runs[r].failedAt # "none"
     /\ runs[r].finalExists)
    => /\ runs[r].finalStatus = "error"
       /\ runs[r].finalWarnings # <<>>

\* a run whose executor threw after the record was set to 'running' has
\* returned, and the record shows the error with its warning
C1_Witness ==
  \E r \in RunIds :
    /\ runs[r].pc = "done" /\ runs[r].failedAt = "execute"
    /\ runs[r].finalExists
    /\ runs[r].finalStatus = "error"
    /\ Len(runs[r].finalWarnings) = 1
    /\ runs[r].finalWarnings[1].severity = "high"

\* C2: every record that a run has put in status 'running' is eventually in
\* status 'completed' or 'error', whatever the child processes do, provided
\* the timers fire.
C2_EventuallyTerminal ==
  \A id \in AnalysisIds :
    (analyses[id].status = "running") ~> (analyses[id].status \in {"completed", "error"})

\* C3: once the status of a record is 'completed' or 'error', no step changes it.
C3_TerminalIsFinal ==
  [][\A id \in AnalysisIds :
       analyses[id].status \in {"completed", "error"}
       => analyses'[id].status = analyses[id].status]_vars

\* ===================================================================
\* Properties of the executor
\* ===================================================================

\* C4: a call whose child had not exited when the timeout elapsed returns
\* status 'timeout' with the child killed, whichever of the two timers fired
\* first.
C4_TimeoutStatus ==
  \A c \in CallIds :
    (calls[c].pc = "returned" /\ calls[c].atDeadline = "alive")
      => (calls[c].result.status = "timeout" /\ calls[c].child # "alive")

\* what a returned call reports, leaving the cleanup aside
Reported(call) ==
  /\ call.result.status \in {"success", "timeout", "error"}
  /\ call.result.inputSize = call.inputSize
  /\ (call.result.status # "success" => call.result.error # "")
  /\ (call.result.status = "success" /\ ~call.hit
        => call.child = "closed" /\ call.exitCode = 0)

\* C5 (as amended): executeCode never throws or rejects; a call that returns
\* hands back one result, and every failure other than a cleanup failure
\* (directory creation, file write, unsupported language, spawn failure,
\* non-zero exit, timeout) gives a status other than 'success' with an error
\* message; a call that has not returned has no result.
C5_NeverThrows ==
  \A c \in CallIds :
    /\ calls[c].pc \in {"idle", "awaiting", "returned"}
    /\ (calls[c].pc = "returned" => Reported(calls[c]))
    /\ (calls[c].pc # "returned" => calls[c].result = NoResult)

\* C5 (as claimed): the same, and a cleanup failure too is reported through
\* the status and error fields of the result.
C5_CleanupReported ==
  /\ C5_NeverThrows
  /\ \A c \in CallIds :
       (calls[c].pc = "returned" /\ calls[c].tempDir = "leftover")
         => (calls[c].result.status # "success" /\ calls[c].result.error # "")

C5_Witness ==
  \E c, d \in CallIds :
    /\ calls[c].pc = "returned" /\ calls[c].result.error = "spawn failed"
    /\ calls[c].tempDir = "leftover"
    /\ calls[d].pc = "returned" /\ calls[d].result.status = "timeout"

\* C6: every executeCode call that waits for its child eventually returns.
C6_EventuallyReturns ==
  \A c \in ExecCallIds : (calls[c].pc = "awaiting") ~> (calls[c].pc = "returned")

SameKey(c, d) == CallKey(calls[c]) = CallKey(calls[d])

\* C7: when a call d starts after an executing call c on the same key has
\* completed with success, and within the TTL of that completion, d returns
\* a result equal to c's and spawns no process.
C7_IdempotentWithinTTL ==
  \A c, d \in CallIds :
    ( /\ calls[c].pc = "returned" /\ ~calls[c].hit
      /\ calls[c].result.status = "success"
      /\ calls[d].pc # "idle" /\ SameKey(c, d)
      /\ calls[c].endTime < calls[d].startTime
      /\ calls[d].startTime < calls[c].endTime + CACHE_TTL )
    => ( /\ calls[d].pc = "returned"
         /\ calls[d].result = calls[c].result
         /\ calls[d].child = "none" )

\* C8: no cache hit returns a result that was inserted more than CACHE_TTL
\* earlier.
C8_NoStaleHit ==
  \A c \in CallIds : calls[c].hit => calls[c].hitAge <= CACHE_TTL

\* a hit on an entry of age CACHE_TTL, on a key under which two executions
\* have inserted
C8_Witness ==
  \E c, d, e \in CallIds :
    /\ calls[c].hit /\ calls[c].hitAge = CACHE_TTL
    /\ d # e /\ SameKey(c, d) /\ SameKey(c, e)
    /\ ~calls[d].hit /\ calls[d].result.status = "success"
    /\ ~calls[e].hit /\ calls[e].result.status = "success"

\* C9: every entry of executionCache has status 'success'.
C9_CacheOnlySuccess ==
  \A k \in DOMAIN executionCache : executionCache[k].result.status = "success"

\* an entry is cached while another execution on the same key has failed
C9_Witness ==
  \E c, d \in CallIds :
    /\ SameKey(c, d) /\ CacheHas(CallKey(calls[c]))
    /\ calls[c].result.status = "success"
    /\ calls[d].result.status \in {"timeout", "error"}

\* C10 (as claimed): after a call has returned, its scratch directory no
\* longer exists.
C10_ScratchGone ==
  \A c \in CallIds :
    calls[c].pc = "returned" => calls[c].tempDir \in {"none", "removed"}

\* C10 (as amended): after a call has returned, the removal of the scratch
\* directory it created has been attempted on every exit path; the directory
\* no longer exists unless rmSync itself threw.
C10_RemovalAttempted ==
  \A c \in CallIds :
    calls[c].pc = "returned" => calls[c].tempDir \in {"none", "removed", "leftover"}

\* a call returned through the timeout while descendants of the killed child
\* still hold the pipes, and its directory is removed
C10_Witness ==
  \E c \in CallIds :
    /\ calls[c].pc = "returned" /\ calls[c].result.status = "timeout"
    /\ calls[c].child = "exitedHeld" /\ calls[c].tempDir = "removed"

Requested(r) == InputSizes(INPUT_SIZES, runs[r].maxInputSize)

\* the position of the last size of the group that holds position k
GroupEnd(k) == ((k - 1) \div MAX_PARALLEL_EXECUTIONS + 1) * MAX_PARALLEL_EXECUTIONS

Failed(res) == res.status \in {"error", "timeout"}

\* executeCodeParallel has returned its array to the run
Returned(r) == runs[r].pc \in {"classify", "done"} /\ runs[r].failedAt = "none"

\* C12: the inputSize sequence of the results gathered by executeCodeParallel
\* is, at every moment and when it returns, a prefix of the requested size
\* list in the requested order.
C12_PrefixOfSizes ==
  \A r \in RunIds :
    runs[r].pc \notin {"idle", "scheduled"}
    => /\ Len(runs[r].results) <= Len(Requested(r))
       /\ \A k \in 1..Len(runs[r].results) :
            runs[r].results[k].inputSize = Requested(r)[k]

\* executeCodeParallel returned a truncated list: four results for five
\* requested sizes, the first a success and the last a timeout
C12_Witness ==
  \E r \in RunIds :
    /\ Returned(r)
    /\ Len(Requested(r)) = 5 /\ Len(runs[r].results) = 4
    /\ runs[r].results[1].status = "success"
    /\ runs[r].results[4].status = "timeout"

\* C13: once an execution of a group has returned 'timeout' or 'error', no
\* execution of a later group is ever started; and the array returned holds the
\* results of all executions of the groups up to the failing one, and nothing
\* else.
C13_StopsAfterFailure ==
  \A r \in RunIds :
    /\ \A j \in 1..Len(INPUT_SIZES) :
         (calls[RunSlot(r, j)].pc = "returned" /\ Failed(calls[RunSlot(r, j)].result))
         => \A l \in 1..Len(INPUT_SIZES) :
              l > GroupEnd(j) => calls[RunSlot(r, l)].pc = "idle"
    /\ Returned(r)
       => /\ \A k \in 1..Len(runs[r].results) :
               /\ runs[r].results[k] = calls[RunSlot(r, k)].result
               /\ Failed(runs[r].results[k])
                  => Len(runs[r].results) = Min(GroupEnd(k), Len(Requested(r)))
          /\ (\A k \in 1..Len(runs[r].results) : ~Failed(runs[r].results[k]))
             => Len(runs[r].results) = Len(Requested(r))

\* the first group held a failure and a success; the array returned has the
\* four results of that group and the fifth size was never executed
C13_Witness ==
  \E r \in RunIds :
    /\ Returned(r)
    /\ Len(Requested(r)) = 5 /\ Len(runs[r].results) = 4
    /\ runs[r].results[2].status = "error"
    /\ runs[r].results[3].status = "success"
    /\ calls[RunSlot(r, 5)].pc = "idle"

\* the children of the executions of run r that are alive
AliveChildren(r) ==
  {j \in 1..Len(INPUT_SIZES) : calls[RunSlot(r, j)].child = "alive"}

\* C14: at most MAX_PARALLEL_EXECUTIONS children of one executeCodeParallel
\* call are alive at any moment: an execution of a later group has started
\* only when every execution of the earlier groups has returned and its child
\* has exited.
C14_BoundedChildren ==
  \A r \in RunIds :
    /\ Cardinality(AliveChildren(r)) <= MAX_PARALLEL_EXECUTIONS
    /\ \A j, l \in 1..Len(INPUT_SIZES) :
         (GroupEnd(j) < l /\ calls[RunSlot(r, l)].pc # "idle")
         => /\ calls[RunSlot(r, j)].pc = "returned"
            /\ calls[RunSlot(r, j)].child \notin {"alive", "spawnfail"}

\* the second group is running after the four executions of the first
\* group have returned
C14_Witness ==
  \E r \in RunIds :
    /\ calls[RunSlot(r, 5)].child = "alive"
    /\ \A j \in 1..4 : calls[RunSlot(r, j)].pc = "returned"
    /\ Cardinality(AliveChildren(r)) = 1

\* the input sizes of a list of results
RECURSIVE SizesOf(_)
SizesOf(results) ==
  IF results = <<>> THEN <<>> ELSE <<Head(results).inputSize>> \o SizesOf(Tail(results))

Output(r) == detectComplexity(runs[r].results, runs[r].code)

\* the run is about to classify its results, or has classified them and
\* completed the record
Classifying(r) == runs[r].pc \in {"classify", "done"} /\ runs[r].failedAt = "none"

\* the run has completed the record with the labels detectComplexity returned
Persisted(r) ==
  /\ runs[r].pc = "done"
  /\ analyses[runs[r].analysisId].status = "completed"
  /\ analyses[runs[r].analysisId].timeComplexityBest = Output(r).timeComplexityBest
  /\ analyses[runs[r].analysisId].timeComplexityAverage = Output(r).timeComplexityAverage
  /\ analyses[runs[r].analysisId].timeComplexityWorst = Output(r).timeComplexityWorst
  /\ analyses[runs[r].analysisId].spaceComplexity = Output(r).spaceComplexity

Successes(results) == {k \in 1..Len(results) : results[k].status = "success"}

\* C16: when the code matches a catalog keyword, detectComplexity returns the
\* labels, the name and the category of the first matching entry with
\* confidence 0.9, whatever the list of results is (so two runs on the same
\* code get the same classification).
C16_CatalogOverridesTimings ==
  \A r \in RunIds :
    (Classifying(r) /\ detectAlgorithm(runs[r].code) # 0)
    => LET e == ALGORITHM_CATALOG[detectAlgorithm(runs[r].code)]
       IN /\ Output(r).timeComplexityBest = e.timeComplexityBest
          /\ Output(r).timeComplexityAverage = e.timeComplexityAverage
          /\ Output(r).timeComplexityWorst = e.timeComplexityWorst
          /\ Output(r).spaceComplexity = e.spaceComplexity
          /\ Output(r).confidence = 9
          /\ Output(r).algorithmName = e.name
          /\ Output(r).algorithmCategory = e.category
          /\ Output(r).algorithmType = e.name
          /\ runs[r].code = BubbleCode => e.name = "Bubble Sort"
          /\ runs[r].code = BfsCode => e.name = "Breadth-First Search (BFS)"

\* bubble sort code whose two timings are equal (empirically O(1)) is
\* classified by the catalog: worst case O(n^2)
C16_Witness ==
  \E r \in RunIds :
    /\ Persisted(r) /\ runs[r].code = BubbleCode
    /\ Len(runs[r].results) = 2 /\ Successes(runs[r].results) = {1, 2}
    /\ runs[r].results[1].runtime = 1 /\ runs[r].results[2].runtime = 1
    /\ Output(r).timeComplexityWorst = "O(n^2)"
    /\ Output(r).confidence = 9

\* C17: with no catalog match and fewer than two successful results, the four
\* complexity fields are 'Unable to determine' and the confidence is 0.
C17_UnableToDetermine ==
  \A r \in RunIds :
    (/\ Classifying(r)
     /\ detectAlgorithm(runs[r].code) = 0
     /\ Cardinality(Successes(runs[r].results)) < 2)
    => /\ Output(r).timeComplexityBest = "Unable to determine"
       /\ Output(r).timeComplexityAverage = "Unable to determine"
       /\ Output(r).timeComplexityWorst = "Unable to determine"
       /\ Output(r).spaceComplexity = "Unable to determine"
       /\ Output(r).confidence = 0

\* one successful result next to two failed ones, no catalog match
C17_Witness ==
  \E r \in RunIds :
    /\ Persisted(r) /\ runs[r].code = PlainCode
    /\ Len(runs[r].results) = 3 /\ Cardinality(Successes(runs[r].results)) = 1
    /\ Output(r).timeComplexityWorst = "Unable to determine"
    /\ Output(r).confidence = 0

\* the mean of (timeRatio / sizeRatio) over the adjacent pairs of successful
\* results whose earlier runtime is positive, as a fraction in lowest terms
MeanRatio(results) ==
  LET r == ratios(SelectSeq(results, IsSuccess), 2)
  IN Frac(r.sum.num, r.sum.den * r.length)

PairsCounted(results) == ratios(SelectSeq(results, IsSuccess), 2).length

\* x < tenths / 10
Lt(x, tenths) == 10 * x.num < tenths * x.den

\* the class of a mean, with strict '<' at every threshold
LabelOf(x) ==
  IF Lt(x, 15) THEN "O(1)"
  ELSE IF Lt(x, 30) THEN "O(log n)"
  ELSE IF Lt(x, 50) THEN "O(n)"
  ELSE IF Lt(x, 100) THEN "O(n log n)"
  ELSE IF Lt(x, 200) THEN "O(n^2)"
  ELSE "O(n^3) or higher"

\* the means the claim names and the label of each
NamedMeans ==
  {<<Frac(14, 10), "O(1)">>, <<Frac(29, 10), "O(log n)">>, <<Frac(49, 10), "O(n)">>,
   <<Frac(99, 10), "O(n log n)">>, <<Frac(199, 10), "O(n^2)">>,
   <<Frac(201, 10), "O(n^3) or higher">>,
   <<Frac(15, 10), "O(log n)">>, <<Frac(3, 1), "O(n)">>, <<Frac(5, 1), "O(n log n)">>,
   <<Frac(10, 1), "O(n^2)">>, <<Frac(20, 1), "O(n^3) or higher">>}

\* C18: with no catalog match, at least two successful results and a mean
\* ratio (at least one pair counted), the three time labels are the class of
\* the mean against the thresholds 1.5, 3, 5, 10, 20 with strict '<': means
\* of 1.4, 2.9, 4.9, 9.9, 19.9, 20.1 give the six labels in order, and a mean
\* equal to a threshold falls in the higher class.
C18_Thresholds ==
  \A r \in RunIds :
    (/\ Classifying(r)
     /\ detectAlgorithm(runs[r].code) = 0
     /\ Cardinality(Successes(runs[r].results)) >= 2
     /\ PairsCounted(runs[r].results) > 0)
    => /\ Output(r).timeComplexityWorst = LabelOf(MeanRatio(runs[r].results))
       /\ Output(r).timeComplexityBest = Output(r).timeComplexityWorst
       /\ Output(r).timeComplexityAverage = Output(r).timeComplexityWorst
       /\ Output(r).confidence = 6
       /\ \A m \in NamedMeans :
            MeanRatio(runs[r].results) = m[1] => Output(r).timeComplexityWorst = m[2]

\* two successful results with sizes 100 and 500 and runtimes 1 and 15: the
\* mean is exactly 3 and the label is O(n)
C18_Witness ==
  \E r \in RunIds :
    /\ Persisted(r) /\ runs[r].code = PlainCode
    /\ Len(runs[r].results) = 2 /\ Successes(runs[r].results) = {1, 2}
    /\ runs[r].results[1].runtime = 1 /\ runs[r].results[2].runtime = 15
    /\ MeanRatio(runs[r].results) = Frac(3, 1)
    /\ Output(r).timeComplexityWorst = "O(n)"

\* C19: for every list of at least two successful results (no catalog match)
\* the mean ratio is computed from at least one pair, so no division by zero
\* happens.
C19_MeanWellDefined ==
  \A r \in RunIds :
    (/\ Classifying(r)
     /\ detectAlgorithm(runs[r].code) = 0
     /\ Cardinality(Successes(runs[r].results)) >= 2)
    => PairsCounted(runs[r].results) >= 1

\* the seven labels of the vocabulary
Vocabulary ==
  {"O(1)", "O(log n)", "O(n)", "O(n log n)", "O(n^2)", "O(n^3) or higher",
   "Unable to determine"}

\* C20 (as stated): in a completed record the three time labels are among the
\* seven labels of the vocabulary.
C20_FixedVocabulary ==
  \A id \in AnalysisIds :
    analyses[id].status = "completed"
    => /\ analyses[id].timeComplexityBest \in Vocabulary
       /\ analyses[id].timeComplexityAverage \in Vocabulary
       /\ analyses[id].timeComplexityWorst \in Vocabulary

\* C20 (as amended): in a completed record the three time labels are among
\* the seven labels of the vocabulary when the code matches no catalog entry;
\* when it matches one they are that entry's labels, whatever they are.
C20_VocabularyOrCatalog ==
  \A id \in AnalysisIds :
    analyses[id].status = "completed"
    => IF detectAlgorithm(analyses[id].code) = 0
       THEN /\ analyses[id].timeComplexityBest \in Vocabulary
            /\ analyses[id].timeComplexityAverage \in Vocabulary
            /\ analyses[id].timeComplexityWorst \in Vocabulary
       ELSE LET e == ALGORITHM_CATALOG[detectAlgorithm(analyses[id].code)]
            IN /\ analyses[id].timeComplexityBest = e.timeComplexityBest
               /\ analyses[id].timeComplexityAverage = e.timeComplexityAverage
               /\ analyses[id].timeComplexityWorst = e.timeComplexityWorst

\* a completed record of breadth-first search code carries the catalog's
\* label O(V + E)
C20_Witness ==
  \E id \in AnalysisIds :
    /\ analyses[id].status = "completed"
    /\ analyses[id].code = BfsCode
    /\ analyses[id].timeComplexityWorst = "O(V + E)"

\* ===================================================================
\* Properties of the end-to-end scenario and of the size ladder
\* ===================================================================
\* the executions of run r that were started, as positions of the ladder
Started(r) == {j \in 1..Len(INPUT_SIZES) : calls[RunSlot(r, j)].pc # "idle"}

HasWarning(warnings, type) == \E k \in 1..Len(warnings) : warnings[k].type = type

\* the run on Python code defining bubble_sort with maxInputSize 2000 has
\* returned
BubbleScenario(r) ==
  /\ runs[r].pc = "done"
  /\ runs[r].code = BubbleCode /\ runs[r].language = "python"
  /\ runs[r].maxInputSize = 2000

\* what the scenario leaves apart from the confidence: the four sizes were
\* executed, the record is completed with the catalog's label and name and a
\* performance warning
ScenarioRecord(r) ==
  LET rec == analyses[runs[r].analysisId]
  IN /\ Requested(r) = <<100, 500, 1000, 2000>>
     /\ Started(r) = 1..4
     /\ \A j \in 1..4 : calls[RunSlot(r, j)].inputSize = Requested(r)[j]
     /\ SizesOf(rec.executionResults) = Requested(r)
     /\ rec.status = "completed"
     /\ rec.timeComplexityWorst = "O(n^2)"
     /\ rec.algorithmName = "Bubble Sort"
     /\ HasWarning(rec.warnings, "performance")

\* C21: for a record with Python code defining bubble_sort and maxInputSize
\* 2000, a run executes exactly the sizes 100, 500, 1000, 2000 and, whatever
\* the execution outcomes, leaves a record with status 'completed',
\* timeComplexityWorst O(n^2), algorithmName 'Bubble Sort', a warning of type
\* 'performance', and the confidence 0.9 stored on the record.
C21_BubbleSortScenario ==
  \A r \in RunIds :
    BubbleScenario(r)
    => /\ ScenarioRecord(r)
       /\ "confidence" \in DOMAIN analyses[runs[r].analysisId]
       /\ analyses[runs[r].analysisId].confidence = 9

\* everything the scenario states except the stored confidence does hold, and
\* the classification did compute the confidence 0.9
C21_ScenarioWithoutConfidence ==
  \A r \in RunIds :
    BubbleScenario(r) => (ScenarioRecord(r) /\ Output(r).confidence = 9)

\* ===================================================================
\* Properties of the warnings
\* ===================================================================
IsTimeout(res) == res.status = "timeout"

IsError(res) == res.status = "error"

\* the warnings generateWarnings returns for the results of the run and the
\* classification of them
Warnings(r) == generateWarnings(runs[r].results, Output(r))

\* the condition of each type of warning
WarningHolds(r, type) ==
  CASE type = "timeout" -> \E k \in 1..Len(runs[r].results) : IsTimeout(runs[r].results[k])
    [] type = "error" -> \E k \in 1..Len(runs[r].results) : IsError(runs[r].results[k])
    [] type = "performance" ->
         Output(r).timeComplexityWorst \in {"O(n^2)", "O(n^3) or higher", "O(n!)"}
    [] type = "memory" -> \E k \in 1..Len(runs[r].results) : runs[r].results[k].memoryUsage > 500

\* C22: generateWarnings returns, in the order timeout, error, performance,
\* memory, exactly one warning for each condition that holds and none for a
\* condition that does not: some result timed out (high, listing every
\* timed-out size), some result errored (high, listing every errored size),
\* the worst-case label is O(n^2), 'O(n^3) or higher' or holds '!' (medium),
\* some result has memoryUsage > 500 (medium); the completed record stores
\* these warnings.
C22_WarningsExact ==
  \A r \in RunIds :
    Classifying(r)
    => LET w == Warnings(r)
           Holds(type) == WarningHolds(r, type)
       IN /\ [k \in 1..Len(w) |-> w[k].type]
               = SelectSeq(<<"timeout", "error", "performance", "memory">>, Holds)
          /\ \A k \in 1..Len(w) :
               /\ w[k].severity = IF w[k].type \in {"timeout", "error"} THEN "high" ELSE "medium"
               /\ w[k].type = "timeout" => w[k].sizes = SizesOf(SelectSeq(runs[r].results, IsTimeout))
               /\ w[k].type = "error" => w[k].sizes = SizesOf(SelectSeq(runs[r].results, IsError))
          /\ runs[r].pc = "done" => analyses[runs[r].analysisId].warnings = w

\* a completed record with all four warnings: results with a memoryUsage of
\* 501, an error and a timeout, for code the catalog classifies as O(n!)
C22_Witness ==
  \E r \in RunIds :
    /\ Persisted(r) /\ runs[r].code = TspCode
    /\ Output(r).timeComplexityWorst = "O(n!)"
    /\ Len(analyses[runs[r].analysisId].warnings) = 4
    /\ analyses[runs[r].analysisId].warnings[1].sizes = <<1000>>
    /\ analyses[runs[r].analysisId].warnings[2].sizes = <<500>>
    /\ analyses[runs[r].analysisId].warnings[3].type = "performance"
    /\ analyses[runs[r].analysisId].warnings[4].type = "memory"

\* ===================================================================
\* Properties of the events of a child
\* ===================================================================
\* C23: the event that comes first for an execution decides its result, and
\* no later event changes it.  When 'close' comes first the status is
\* 'success' exactly when the exit code is 0, and otherwise 'error' with the
\* captured stderr, or 'Process exited with code N' when stderr is empty; when
\* 'error' (the spawn failed) comes first the status is 'error' with the spawn
\* error message; when the timeout comes first the status is 'timeout'.
C23_FirstEventDecides ==
  [][\A c \in CallIds :
       /\ calls[c].pc = "returned" => calls'[c].result = calls[c].result
       /\ (calls[c].pc = "awaiting" /\ calls'[c].pc = "returned")
          => LET res == calls'[c].result
             IN CASE calls[c].child = "exited" /\ calls'[c].child = "closed" ->
                       /\ (res.status = "success") <=> (calls[c].exitCode = 0)
                       /\ res.status # "success"
                          => /\ res.status = "error"
                             /\ res.error = IF calls'[c].stderr # "" THEN calls'[c].stderr
                                            ELSE ExitMessage(calls[c].exitCode)
                  [] calls[c].child = "spawnfail" ->
                       res.status = "error" /\ res.error = "spawn ENOENT"
                  [] OTHER ->
                       /\ calls'[c].killTimer = "fired" /\ calls[c].killTimer = "armed"
                       /\ res.status = "timeout" /\ res.error = "Execution timed out"]_vars

\* 'close' came first with exit code 1 and text on stderr, the timeout came
\* after it: the result is the error with the stderr text
C23_Witness ==
  \E c \in CallIds :
    /\ calls[c].pc = "returned" /\ ~calls[c].hit
    /\ calls[c].child = "closed" /\ calls[c].exitCode = 1
    /\ calls[c].killTimer = "fired"
    /\ calls[c].stderr = "Traceback"
    /\ calls[c].result.status = "error"
    /\ calls[c].result.error = "Traceback"

\* ===================================================================
\* Properties of the caller of analyzeCode
\* ===================================================================
\* C24: analyzeCode returns to its caller without throwing and before the run
\* has touched the record: the response of POST /api/analyses shows the record
\* as 'pending'; and whatever happens to the run afterwards, a failure inside
\* its own catch handler included, the caller has got a normal return and
\* nothing else.
C24_FireAndForget ==
  \A r \in RunIds :
    /\ runs[r].pc = "idle" => runs[r].caller = "none"
    /\ runs[r].pc # "idle" => runs[r].caller = "returned"
    /\ runs[r].response \in {"", "pending"}
    /\ (runs[r].pc = "scheduled" /\ runs[r].response = "pending")
       => analyses[runs[r].analysisId].exists

\* the run started by a POST failed and its catch handler failed too: the
\* record is stuck in 'running', the caller had returned with 'pending'
C24_Witness ==
  \E r \in RunIds :
    /\ runs[r].pc = "rejected"
    /\ runs[r].caller = "returned"
    /\ runs[r].response = "pending"
    /\ analyses[runs[r].analysisId].status = "running"

\* the sizes of the ladder that do not exceed maxInputSize, as a set
LadderUpTo(maxInputSize) ==
  {INPUT_SIZES[k] : k \in {l \in 1..Len(INPUT_SIZES) : INPUT_SIZES[l] <= maxInputSize}}

\* the size list of the run is the ladder up to maxInputSize in ascending
\* order, and the executions started are the first ones of that list, each
\* with its size
LadderRequested(r) ==
  /\ {Requested(r)[k] : k \in 1..Len(Requested(r))} = LadderUpTo(runs[r].maxInputSize)
  /\ \A k \in 1..(Len(Requested(r)) - 1) : Requested(r)[k] < Requested(r)[k + 1]
  /\ Started(r) \subseteq 1..Len(Requested(r))
  /\ \A j \in Started(r) :
       /\ calls[RunSlot(r, j)].inputSize = Requested(r)[j]
       /\ \A l \in 1..j : l \in Started(r)

\* with maxInputSize below the ladder nothing is requested or started, and the
\* run completes the record with an empty list of results
EmptyLadder(r) ==
  runs[r].maxInputSize < 100
  => /\ Requested(r) = <<>>
     /\ Started(r) = {}
     /\ runs[r].pc = "done"
        => /\ analyses[runs[r].analysisId].status = "completed"
           /\ analyses[runs[r].analysisId].executionResults = <<>>

\* C25 (as stated): a run executes exactly the ladder sizes that do not exceed
\* the record's maxInputSize, in ascending order; with maxInputSize < 100 no
\* execution is started and the run ends 'completed' with no results.
C25_ExactlyTheLadder ==
  \A r \in RunIds :
    runs[r].pc \notin {"idle", "scheduled"}
    => /\ LadderRequested(r)
       /\ EmptyLadder(r)
       /\ runs[r].pc = "done" => Started(r) = 1..Len(Requested(r))

\* C25 (as amended): the size list of a run is exactly the ladder sizes that
\* do not exceed maxInputSize, in ascending order, and the run executes them
\* in that order, group by group, up to the end of the first group in which an
\* execution failed (all of them when none failed); with maxInputSize < 100 no
\* execution is started and the run ends 'completed' with no results.
C25_LadderUntilFailure ==
  \A r \in RunIds :
    runs[r].pc \notin {"idle", "scheduled"}
    => /\ LadderRequested(r)
       /\ EmptyLadder(r)
       /\ runs[r].pc = "done"
          => /\ \A j \in Started(r) :
                  Failed(calls[RunSlot(r, j)].result)
                  => Started(r) = 1..Min(GroupEnd(j), Len(Requested(r)))
             /\ (\A j \in Started(r) : ~Failed(calls[RunSlot(r, j)].result))
                => Started(r) = 1..Len(Requested(r))

\* a run on a record with maxInputSize 50 has ended: nothing was executed and
\* the record is completed with no results
C25_Witness ==
  \E r \in RunIds :
    /\ runs[r].pc = "done" /\ runs[r].maxInputSize = 50
    /\ Started(r) = {}
    /\ analyses[runs[r].analysisId].status = "completed"
    /\ analyses[runs[r].analysisId].executionResults = <<>>

\* ===================================================================
\* Properties of a run whose executions fail
\* ===================================================================
\* the sizes that the warnings of the given type name
NamedSizes(warnings, type) ==
  UNION {{warnings[k].sizes[i] : i \in 1..Len(warnings[k].sizes)} :
           k \in {l \in 1..Len(warnings) :
                    warnings[l].type = type /\ warnings[l].severity = "high"}}

SizesFailedWith(results, status) ==
  {results[k].inputSize : k \in {l \in 1..Len(results) : results[l].status = status}}

\* C28: execution failures alone never put a record in status 'error': with
\* nothing thrown no record is in 'error', and when every execution of a run
\* has returned 'error' or 'timeout' the run ends with the record 'completed',
\* the failed results stored in executionResults, and high-severity warnings
\* that name the failed sizes.
C28_FailuresStillComplete ==
  /\ \A id \in AnalysisIds : analyses[id].status # "error"
  /\ \A r \in RunIds :
       (/\ runs[r].pc = "done"
        /\ Started(r) # {}
        /\ \A j \in Started(r) : Failed(calls[RunSlot(r, j)].result))
       => LET rec == analyses[runs[r].analysisId]
          IN /\ rec.status = "completed"
             /\ rec.executionResults
                  = [k \in 1..Cardinality(Started(r)) |-> calls[RunSlot(r, k)].result]
             /\ NamedSizes(rec.warnings, "error")
                  = SizesFailedWith(rec.executionResults, "error")
             /\ NamedSizes(rec.warnings, "timeout")
                  = SizesFailedWith(rec.executionResults, "timeout")
             /\ NamedSizes(rec.warnings, "error") \cup NamedSizes(rec.warnings, "timeout")
                  = {rec.executionResults[k].inputSize : k \in 1..Len(rec.executionResults)}

\* the four executions of a run failed, two with 'error' and two with
\* 'timeout': the record is completed with the four results and two warnings
\* of high severity
C28_Witness ==
  \E r \in RunIds :
    /\ runs[r].pc = "done" /\ runs[r].code = PlainCode
    /\ Started(r) = 1..4
    /\ analyses[runs[r].analysisId].status = "completed"
    /\ Len(analyses[runs[r].analysisId].executionResults) = 4
    /\ NamedSizes(analyses[runs[r].analysisId].warnings, "error") = {100, 1000}
    /\ NamedSizes(analyses[runs[r].analysisId].warnings, "timeout") = {500, 2000}
    /\ analyses[runs[r].analysisId].timeComplexityWorst = "Unable to determine"

\* ===================================================================
\* Properties of the harness
\* ===================================================================
\* the wrapper of a Python execution has run to its end
HarnessDone(c) ==
  /\ calls[c].language = "python"
  /\ calls[c].child \in {"exited", "closed"}
  /\ calls[c].exitCode = 0

\* the functions the user's source defines whose name is a convention
Conventional(code) ==
  {k \in 1..Len(FunctionNames(code)) : FunctionNames(code)[k] \in Conventions}

\* C26: the Python harness invokes the first user-defined function as a
\* fallback only when no defined function name matches a naming convention;
\* when a convention-named function matches, exactly one user function is
\* invoked exactly once per execution, whatever it returns (None included).
C26_OneInvocation ==
  \A c \in CallIds :
    HarnessDone(c)
    => LET names == FunctionNames(calls[c].code)
       IN IF Conventional(calls[c].code) = {}
          THEN calls[c].invoked = <<names[1]>>
          ELSE /\ Len(calls[c].invoked) = 1
               /\ calls[c].invoked[1] \in Conventions

\* what does hold: a function with a conventional name that returns a value
\* is the only one invoked, and with no conventional name the first function
\* is invoked once
C26_OneInvocationUnlessNone ==
  \A c \in CallIds :
    (HarnessDone(c) /\ calls[c].code \in FunctionCodes)
    => LET names == FunctionNames(calls[c].code)
           m == Conventional(calls[c].code)
       IN IF m = {} THEN calls[c].invoked = <<names[1]>>
          ELSE \A k \in m :
                 (\A l \in m : k <= l)
                 => /\ calls[c].invoked[1] = names[k]
                    /\ ~ReturnsNone(calls[c].code, names[k]) => Len(calls[c].invoked) = 1
                    /\ ReturnsNone(calls[c].code, names[k])
                       => calls[c].invoked = <<names[k], names[1]>>

\* the text between the user's code and the test data, and the text after the
\* test data, of the template of a language
TestDataPosition(language, testInput) ==
  <<codeTemplates(language)[3]>> \o testInput \o <<codeTemplates(language)[5]>>

\* C27: for every user source and every supported language the text written
\* for the execution holds the user's source verbatim as one contiguous
\* stretch and the test-input literal in the template's test-data position,
\* also when the source holds '{TEST_INPUT}', '{USER_CODE}' or one of the
\* replacement patterns $$, $&, $`, $'.
C27_VerbatimEmbedding ==
  \A c \in CallIds :
    calls[c].sourceFile
    => /\ includes(calls[c].fullCode, calls[c].code)
       /\ includes(calls[c].fullCode,
                   TestDataPosition(calls[c].language,
                                    generateTestInput(calls[c].language, calls[c].inputSize)))

\* what does hold: a source without placeholder and without '$' is embedded
\* verbatim between the template's texts, followed by the test data
C27_VerbatimWithoutPatterns ==
  \A c \in CallIds :
    (calls[c].sourceFile /\ calls[c].code \in FunctionCodes)
    => calls[c].fullCode
         = <<codeTemplates(calls[c].language)[1]>> \o calls[c].code
           \o TestDataPosition(calls[c].language,
                               generateTestInput(calls[c].language, calls[c].inputSize))

\* ===================================================================
\* Properties of the objects handed to callers
\* ===================================================================
\* C29: whatever a caller writes into a result object it was handed, on a
\* cache miss (the executing call) or on a cache hit, a later cache hit for
\* the same key returns the result as it was stored: no object handed to a
\* caller is the object stored in executionCache.
C29_HitsUnaffected ==
  [][\A c \in CallIds :
       (calls[c].pc = "idle" /\ calls'[c].pc = "returned" /\ calls'[c].hit)
       => calls'[c].result.runtime # Tampered]_vars

\* what does hold: the object handed out on a cache hit is a copy, never the
\* stored object
C29_HitIsCopy ==
  \A k \in DOMAIN executionCache :
    \A c \in CallIds : executionCache[k].object = c => ~calls[c].hit

\* ===================================================================
\* Properties of the client's retry policy
\* ===================================================================
\* C30: under the default retry policy of the client's queries a query that
\* keeps failing is retried at most 3 times, for every kind of error, server
\* errors (status >= 500) and network errors (status 0) included.
C30_AtMostThreeRetries ==
  \A q \in QueryIds : queries[q].failureCount <= 3

\* what does hold: an error that is not a NetworkError is retried only while
\* fewer than 3 attempts have failed, a NetworkError with a status from 400 to 499
\* other than 408 and 429 or below 400 other than 0 is never retried, and the
\* delay of a retry is 1 s doubled with every failure, up to 30 s
C30_RetriesByKind ==
  \A q \in QueryIds :
    /\ (queries[q].pc = "failed" /\ queries[q].error # "NetworkError")
       => queries[q].failureCount >= 3
    /\ (queries[q].pc = "waiting" /\ queries[q].error # "NetworkError")
       => queries[q].failureCount <= 3
    /\ (queries[q].pc = "waiting" /\ queries[q].error = "NetworkError")
       => queries[q].status \in {0, 408, 429, 500, 503}
    /\ queries[q].pc = "waiting"
       => queries[q].delay \in {1000, 2000, 4000, 8000, 16000, 30000}

====
